---- MODULE Spec2Model ----
(***************************************************************************)
(* Group membership, invitation and access control of StatusWise           *)
(* (backend/group_service.py, backend/models.py, backend/schemas.py).      *)
(*                                                                         *)
(* The relational store is modelled as tables kept as sequences; a row's   *)
(* primary key is its index.  Every service call runs in one              *)
(* database session and commits once, so each call is one action; where    *)
(* two calls are served side by side, a call is two steps, its queries     *)
(* and its commit, and the steps of the two calls interleave.  Time is     *)
(* counted in whole days.  The audit columns created_at / updated_at /     *)
(* joined_at are written but never read by the service and are left out.   *)
(***************************************************************************)
EXTENDS Integers, Sequences, FiniteSets, TLC

VARIABLES users, groups, members, invitations, projects, incidents, now, last

(* the requests served side by side, each in a database session of its own *)
VARIABLE requests

vars == <<users, groups, members, invitations, projects, incidents, now, last,
          requests>>

(* ---------------------------- bounds ----------------------------------- *)
MaxGroups == 2
MaxInvitations == 2
MaxTime == 8
MaxProjects == 1
MaxIncidents == 1

(* ----------------------- program constants ----------------------------- *)
InvitationDays == 7

OWNER == "owner"
ADMIN == "admin"
MEMBER == "member"
GroupRole == {OWNER, ADMIN, MEMBER}

PENDING == "pending"
ACCEPTED == "accepted"
DECLINED == "declined"
EXPIRED == "expired"
InvitationStatus == {PENDING, ACCEPTED, DECLINED, EXPIRED}
Terminal == {ACCEPTED, DECLINED, EXPIRED}

(* NULL column values, one per column type *)
NoUser == 0
NoGroup == 0
NoTime == -1
NoText == "null"

(* ----------------------------- inputs ---------------------------------- *)
(* addresses that belong to no account: invitations to them carry a token *)
UnknownEmails == {"carol@x", "dave@x"}
(* group names as GroupCreate / GroupUpdate deliver them: non-blank and    *)
(* already stripped; comparison in the store is exact and case-sensitive   *)
Names == {"Ops", "ops"}
Descriptions == {"about"}
Tokens == {"tokA", "tokB"}
(* the registered user who is invited to alice's team, by id or by e-mail *)
Invitees == {2}
InviteeEmails == {"bob@x"}
(* a step of the clock that takes a fresh invitation past its expiry *)
ExpiryStep == InvitationDays + 1
(* steps of the clock that take a fresh invitation to its expiry instant   *)
(* and past it                                                             *)
ClockSteps == {InvitationDays, ExpiryStep}
(* a person who signs in while the service runs *)
Newcomers == {"carol@x"}
ProjectNames == {"Status"}
IncidentTitles == {"Outage"}

(* ------------------------- result of a call ---------------------------- *)
OK == "ok"
NotFound == "NotFound"                  \* HTTP 404
PermissionDenied == "PermissionDenied"  \* HTTP 403
Conflict == "Conflict"                  \* HTTP 400, duplicate group name
AlreadyMember == "AlreadyMember"        \* HTTP 400
DuplicatePending == "DuplicatePending"  \* HTTP 400
Expired == "Expired"                    \* HTTP 400
BadRequest == "BadRequest"              \* HTTP 400, owner self demotion/removal
IntegrityError == "IntegrityError"      \* constraint violation at commit, rolled back
Allowed == "True"                       \* an access check returned True
Denied == "False"                       \* an access check returned False

(* an Optional[T] field of a request: None is {}, a value v is {v} *)
None == {}
Optional(T) == {None} \cup {{v} : v \in T}
Value(o) == CHOOSE v \in o : TRUE

NoArgs ==
    [gid |-> 0, id |-> 0, name |-> NoText, role |-> NoText, status |-> NoText,
     email |-> NoText, uid |-> NoUser, patch |-> None, action |-> NoText]

(* the record of the call that produced the current state *)
Call(op, actor, result, args) ==
    [f \in {"op", "actor", "result"} \cup DOMAIN NoArgs |->
        CASE f = "op" -> op
          [] f = "actor" -> actor
          [] f = "result" -> result
          [] OTHER -> IF f \in DOMAIN args THEN args[f] ELSE NoArgs[f]]

(* no call is in progress: the service waits for the next request *)
NoCall == Call("none", NoUser, OK, <<>>)

(* --------------------------- store queries ----------------------------- *)
UserIds == DOMAIN users
GroupIds == DOMAIN groups
MemberIds == DOMAIN members
InvitationIds == DOMAIN invitations

(* auth.get_user_by_email: id of the user with that e-mail, NoUser if none *)
get_user_by_email(email) ==
    IF \E u \in UserIds : users[u] = email
    THEN CHOOSE u \in UserIds : users[u] = email
    ELSE NoUser

(* the membership query without its is_active filter *)
ActiveMemberships_any_row(ms, user_id, group_id) ==
    {m \in DOMAIN ms : /\ ms[m].user_id = user_id
                       /\ ms[m].group_id = group_id}

(* GroupService._get_user_group_membership: ids of active rows of the pair *)
ActiveMemberships(ms, user_id, group_id) ==
    {m \in DOMAIN ms : /\ ms[m].user_id = user_id
                       /\ ms[m].group_id = group_id
                       /\ ms[m].is_active}

_get_user_group_membership(user_id, group_id) ==
    ActiveMemberships(members, user_id, group_id)

(* the permission floor without its role test: any active member passes *)
InsufficientPermissions_any_role(user_id, group_id) ==
    _get_user_group_membership(user_id, group_id) = {}

(* "not membership or membership.role not in [OWNER, ADMIN]" *)
InsufficientPermissions(user_id, group_id) ==
    \A m \in _get_user_group_membership(user_id, group_id) :
        members[m].role \notin {OWNER, ADMIN}

(* role of the membership that .first() returned (the pair is unique) *)
MembershipRole(user_id, group_id) ==
    members[CHOOSE m \in _get_user_group_membership(user_id, group_id) : TRUE].role

(* the table without its unique constraint *)
_group_user_uc_missing(ms) == TRUE

(* UniqueConstraint("group_id", "user_id") on group_members *)
_group_user_uc(ms) ==
    \A a, b \in DOMAIN ms :
        (ms[a].group_id = ms[b].group_id /\ ms[a].user_id = ms[b].user_id) => a = b

(* ------------------------ requests in progress ------------------------- *)
(* the sessions that serve requests side by side *)
Sessions == {1, 2}

(* a request in its session: the call, where it stands ("idle": no request, *)
(* "write": its checks passed and its writes wait for the commit, "done":  *)
(* it returned), and what the session holds for the commit: the row it     *)
(* added, or the rows its last query found                                 *)
Request(call, pc, held) == [call |-> call, pc |-> pc, held |-> held]

NoRequest == Request(NoCall, "idle", {})

(* ---------------------------- Init ------------------------------------- *)
Init ==
    /\ users = <<"alice@x", "bob@x">>
    /\ groups = <<>>
    /\ members = <<>>
    /\ invitations = <<>>
    /\ projects = <<>>
    /\ incidents = <<>>
    /\ now = 0
    /\ last = NoCall
    /\ requests = [s \in Sessions |-> NoRequest]

(* ------------------------ environment steps ---------------------------- *)
(* the clock datetime.now(timezone.utc) moves on *)
AdvanceClock(d) ==
    /\ now' = now + d
    /\ last' = last
    /\ UNCHANGED <<requests, users, projects, incidents, groups, members, invitations>>

(* auth.get_or_create_user_from_google: a verified Google account signs in; *)
(* an account with that e-mail is reused, otherwise one is created         *)
SignIn(email) ==
    /\ IF \E u \in UserIds : users[u] = email
       THEN UNCHANGED users
       ELSE users' = Append(users, email)
    /\ last' = Call("SignIn", NoUser, OK, [email |-> email])
    /\ UNCHANGED <<requests, projects, incidents, groups, members, invitations, now>>

(* ----------------------- Group Lifecycle ------------------------------- *)
(* the uniqueness query without its is_active filter *)
NameTaken_any_group(owner_id, name, except) ==
    \E g \in GroupIds : /\ groups[g].owner_id = owner_id
                        /\ groups[g].name = name
                        /\ g # except

(* the uniqueness query without "Group.id != group_id" *)
NameTaken_including_self(owner_id, name, except) ==
    \E g \in GroupIds : /\ groups[g].owner_id = owner_id
                        /\ groups[g].name = name
                        /\ groups[g].is_active

(* create_group: the uniqueness query *)
NameTaken(owner_id, name, except) ==
    \E g \in GroupIds : /\ groups[g].owner_id = owner_id
                        /\ groups[g].name = name
                        /\ g # except
                        /\ groups[g].is_active

NewGroup(name, description, owner_id) ==
    [name |-> name, description |-> description, owner_id |-> owner_id,
     is_active |-> TRUE]

(* a member row left to the column default of role *)
NewMember_default_role(group_id, user_id, role) ==
    [group_id |-> group_id, user_id |-> user_id, role |-> MEMBER, is_active |-> TRUE]

NewMember(group_id, user_id, role) ==
    [group_id |-> group_id, user_id |-> user_id, role |-> role, is_active |-> TRUE]

CreateGroup(name, description, owner) ==
    /\ LET gid == Len(groups) + 1 IN
       IF NameTaken(owner, name, 0)
       THEN /\ last' = Call("CreateGroup", owner, Conflict, [name |-> name])
            /\ UNCHANGED <<groups, members>>
       ELSE /\ groups' = Append(groups, NewGroup(name, description, owner))
            /\ members' = Append(members, NewMember(gid, owner, OWNER))
            /\ last' = Call("CreateGroup", owner, OK, [name |-> name, gid |-> gid])
    /\ UNCHANGED <<requests, users, projects, incidents, invitations, now>>

(* schemas.GroupUpdate: every field optional *)
GroupUpdate ==
    [name : Optional(Names), description : Optional(Descriptions),
     is_active : Optional(BOOLEAN)]

(* the patch applied with is_active open to every role *)
PatchedGroup_any_role(g, patch, role) ==
    [name |-> IF patch.name # None THEN Value(patch.name) ELSE g.name,
     description |-> IF patch.description # None
                     THEN Value(patch.description) ELSE g.description,
     owner_id |-> g.owner_id,
     is_active |-> IF patch.is_active # None
                   THEN Value(patch.is_active) ELSE g.is_active]

(* update_group, "Update fields": the row after the patch is applied *)
PatchedGroup(g, patch, role) ==
    [name |-> IF patch.name # None THEN Value(patch.name) ELSE g.name,
     description |-> IF patch.description # None
                     THEN Value(patch.description) ELSE g.description,
     owner_id |-> g.owner_id,
     is_active |-> IF patch.is_active # None /\ role = OWNER
                   THEN Value(patch.is_active) ELSE g.is_active]

UpdateGroup(group_id, patch, user) ==
    /\ LET args == [gid |-> group_id, patch |-> patch] IN
       IF InsufficientPermissions(user, group_id)
       THEN /\ last' = Call("UpdateGroup", user, PermissionDenied, args)
            /\ UNCHANGED groups
       ELSE IF group_id \notin GroupIds
       THEN /\ last' = Call("UpdateGroup", user, NotFound, args)
            /\ UNCHANGED groups
       ELSE IF /\ patch.name # None
               /\ NameTaken(groups[group_id].owner_id, Value(patch.name), group_id)
       THEN /\ last' = Call("UpdateGroup", user, Conflict, args)
            /\ UNCHANGED groups
       ELSE /\ groups' = [groups EXCEPT ![group_id] =
                            PatchedGroup(@, patch, MembershipRole(user, group_id))]
            /\ last' = Call("UpdateGroup", user, OK, args)
    /\ UNCHANGED <<requests, users, projects, incidents, members, invitations, now>>

(* deletion open to every OWNER or ADMIN member *)
IsGroupOwner_by_role(group_id, user) == ~InsufficientPermissions(user, group_id)

(* delete_group: "group.owner_id != user.id" *)
IsGroupOwner(group_id, user) == groups[group_id].owner_id = user

(* a deletion that also blanks the description *)
SoftDeleted_and_blanked(g) == [g EXCEPT !.is_active = FALSE, !.description = NoText]

(* delete_group: "Soft delete by marking as inactive" *)
SoftDeleted(g) == [g EXCEPT !.is_active = FALSE]

DeleteGroup(group_id, user) ==
    /\ LET args == [gid |-> group_id] IN
       IF group_id \notin GroupIds
       THEN /\ last' = Call("DeleteGroup", user, NotFound, args)
            /\ UNCHANGED groups
       ELSE IF ~IsGroupOwner(group_id, user)
       THEN /\ last' = Call("DeleteGroup", user, PermissionDenied, args)
            /\ UNCHANGED groups
       ELSE /\ groups' = [groups EXCEPT ![group_id] = SoftDeleted(@)]
            /\ last' = Call("DeleteGroup", user, OK, args)
    /\ UNCHANGED <<requests, users, projects, incidents, members, invitations, now>>

(* ------------------------ Invitation State Machine --------------------- *)
(* schemas.GroupInvitationCreate: exactly one of invited_email and         *)
(* invited_user_id is given (model_post_init)                              *)
GroupInvitationCreate(group_ids, emails, user_ids, roles, messages) ==
    {d \in [group_id : group_ids, invited_email : Optional(emails),
            invited_user_id : Optional(user_ids), role : roles,
            message : Optional(messages)] :
        /\ ~(d.invited_email = None /\ d.invited_user_id = None)
        /\ ~(d.invited_email # None /\ d.invited_user_id # None)}

(* invite_user, lines 278-298: the user the target resolves to, or NoUser *)
ResolvedUser(data) ==
    IF data.invited_user_id # None
    THEN Value(data.invited_user_id)
    ELSE get_user_by_email(Value(data.invited_email))

(* invite_user, lines 279 and 292: the e-mail stored with the invitation *)
ResolvedEmail(data) ==
    IF data.invited_user_id # None
    THEN users[Value(data.invited_user_id)]
    ELSE Value(data.invited_email)

(* the SQL that "column == value" renders: IS NULL when the value is None, *)
(* otherwise "=", which no NULL column satisfies                            *)
ColumnEq(column, value, null) ==
    IF value = null THEN column = null ELSE column # null /\ column = value

(* the duplicate check without its PENDING filter *)
ExistingInvitation_any_status(group_id, invited_email, invited_user_id) ==
    {i \in InvitationIds :
        /\ invitations[i].group_id = group_id
        /\ \/ ColumnEq(invitations[i].invited_email, invited_email, NoText)
           \/ ColumnEq(invitations[i].invited_user_id, invited_user_id, NoUser)}

(* invite_user, lines 319-334: "Check for existing pending invitation" *)
ExistingInvitation(group_id, invited_email, invited_user_id) ==
    {i \in InvitationIds :
        /\ invitations[i].group_id = group_id
        /\ \/ ColumnEq(invitations[i].invited_email, invited_email, NoText)
           \/ ColumnEq(invitations[i].invited_user_id, invited_user_id, NoUser)
        /\ invitations[i].status = PENDING}

(* unique=True on group_invitations.invitation_token (NULLs are distinct) *)
TokenUnique(invs) ==
    \A a, b \in DOMAIN invs :
        (invs[a].invitation_token # NoText
            /\ invs[a].invitation_token = invs[b].invitation_token) => a = b

(* an invitation that carries a token whoever is invited *)
NewInvitation_always_token(data, invited_user_id, invited_email, inviter, token) ==
    [group_id |-> data.group_id,
     invited_user_id |-> invited_user_id,
     invited_email |-> invited_email,
     invited_by_id |-> inviter,
     role |-> data.role,
     status |-> PENDING,
     message |-> IF data.message = None THEN NoText ELSE Value(data.message),
     invitation_token |-> token,
     expires_at |-> now + InvitationDays,
     responded_at |-> NoTime]

NewInvitation(data, invited_user_id, invited_email, inviter, token) ==
    [group_id |-> data.group_id,
     invited_user_id |-> invited_user_id,
     invited_email |-> invited_email,
     invited_by_id |-> inviter,
     role |-> data.role,
     status |-> PENDING,
     message |-> IF data.message = None THEN NoText ELSE Value(data.message),
     invitation_token |-> IF invited_user_id = NoUser THEN token ELSE NoText,
     expires_at |-> now + InvitationDays,
     responded_at |-> NoTime]

(* token is the value secrets.token_urlsafe(32) draws.  The recorded call   *)
(* names the target as given until it is resolved, and as resolved after.  *)
Invite(data, inviter, token) ==
    /\ LET given == [gid |-> data.group_id, role |-> data.role,
                     email |-> IF data.invited_email = None THEN NoText
                               ELSE Value(data.invited_email),
                     uid |-> IF data.invited_user_id = None THEN NoUser
                             ELSE Value(data.invited_user_id)]
       IN
       IF InsufficientPermissions(inviter, data.group_id)
       THEN /\ last' = Call("Invite", inviter, PermissionDenied, given)
            /\ UNCHANGED invitations
       ELSE IF data.group_id \notin GroupIds \/ ~groups[data.group_id].is_active
       THEN /\ last' = Call("Invite", inviter, NotFound, given)
            /\ UNCHANGED invitations
       ELSE IF data.invited_user_id # None /\ Value(data.invited_user_id) \notin UserIds
       THEN /\ last' = Call("Invite", inviter, NotFound, given)
            /\ UNCHANGED invitations
       ELSE LET invited_user == ResolvedUser(data)
                invited_email == ResolvedEmail(data)
                created == Append(invitations,
                             NewInvitation(data, invited_user, invited_email,
                                           inviter, token))
                resolved == [gid |-> data.group_id, role |-> data.role,
                             email |-> invited_email, uid |-> invited_user]
            IN
            IF /\ invited_user # NoUser
               /\ ActiveMemberships(members, invited_user, data.group_id) # {}
            THEN /\ last' = Call("Invite", inviter, AlreadyMember, resolved)
                 /\ UNCHANGED invitations
            ELSE IF ExistingInvitation(data.group_id, invited_email, invited_user) # {}
            THEN /\ last' = Call("Invite", inviter, DuplicatePending, resolved)
                 /\ UNCHANGED invitations
            ELSE IF ~TokenUnique(created)
            THEN /\ last' = Call("Invite", inviter, IntegrityError, resolved)
                 /\ UNCHANGED invitations
            ELSE /\ invitations' = created
                 /\ last' = Call("Invite", inviter, OK,
                                 [gid |-> data.group_id, role |-> data.role,
                                  email |-> invited_email, uid |-> invited_user,
                                  id |-> Len(created)])
    /\ UNCHANGED <<requests, users, projects, incidents, groups, members, now>>

(* schemas.GroupInvitationUpdate: status is any InvitationStatus *)
GroupInvitationUpdate(statuses, messages) ==
    [status : statuses, message : Optional(messages)]

(* the lookup without its PENDING filter *)
InvitationFor_any_status(invitation_id, user) ==
    {i \in InvitationIds :
        /\ i = invitation_id
        /\ \/ invitations[i].invited_user_id = user
           \/ invitations[i].invited_email = users[user]}

(* the lookup without its test of the invited principal *)
InvitationFor_any_user(invitation_id, user) ==
    {i \in InvitationIds :
        /\ i = invitation_id
        /\ invitations[i].status = PENDING}

(* respond_to_invitation, lines 376-389: the invitation the query returns *)
InvitationFor(invitation_id, user) ==
    {i \in InvitationIds :
        /\ i = invitation_id
        /\ \/ invitations[i].invited_user_id = user
           \/ invitations[i].invited_email = users[user]
        /\ invitations[i].status = PENDING}

(* the expiry test with its operands swapped *)
IsExpired_swapped(expires_at, current_time) ==
    expires_at # NoTime /\ current_time < expires_at

(* the expiry test that also fires at the expiry instant *)
IsExpired_at_expiry(expires_at, current_time) ==
    expires_at # NoTime /\ expires_at <= current_time

(* respond_to_invitation, line 405 *)
IsExpired(expires_at, current_time) ==
    expires_at # NoTime /\ expires_at < current_time

(* a response that joins the group whatever its status *)
AcceptsInvitation_any_status(response) == TRUE

(* respond_to_invitation: "If accepted, create group membership" *)
AcceptsInvitation(response) == response.status = ACCEPTED

(* an expiry that also stamps the response time *)
ExpiredInvitation_stamped(invitation) ==
    [invitation EXCEPT !.status = EXPIRED, !.responded_at = invitation.expires_at]

(* respond_to_invitation: "invitation.status = InvitationStatus.EXPIRED" *)
ExpiredInvitation(invitation) == [invitation EXCEPT !.status = EXPIRED]

Respond(invitation_id, response, user) ==
    /\ LET args == [id |-> invitation_id, status |-> response.status] IN
       IF InvitationFor(invitation_id, user) = {}
       THEN /\ last' = Call("Respond", user, NotFound, args)
            /\ UNCHANGED <<invitations, members>>
       ELSE LET invitation == invitations[invitation_id] IN
            IF IsExpired(invitation.expires_at, now)
            THEN /\ invitations' = [invitations EXCEPT ![invitation_id] =
                                        ExpiredInvitation(invitation)]
                 /\ last' = Call("Respond", user, Expired, args)
                 /\ UNCHANGED members
            ELSE LET updated ==
                        [invitation EXCEPT
                            !.status = response.status,
                            !.responded_at = now,
                            !.message = IF response.message # None
                                        THEN Value(response.message) ELSE @]
                     joined ==
                        IF /\ AcceptsInvitation(response)
                           /\ ActiveMemberships(members, user, invitation.group_id) = {}
                        THEN Append(members,
                                    NewMember(invitation.group_id, user, invitation.role))
                        ELSE members
                 IN
                 IF ~_group_user_uc(joined)
                 THEN /\ last' = Call("Respond", user, IntegrityError, args)
                      /\ UNCHANGED <<invitations, members>>
                 ELSE /\ invitations' = [invitations EXCEPT ![invitation_id] = updated]
                      /\ members' = joined
                      /\ last' = Call("Respond", user, OK, args)
    /\ UNCHANGED <<requests, users, projects, incidents, groups, now>>

(* --------------------------- Membership Manager ------------------------ *)
(* schemas.GroupMemberUpdate *)
GroupMemberUpdate(roles) ==
    [role : Optional(roles), is_active : Optional(BOOLEAN)]

(* the member query without its group filter *)
MemberRow_any_group(member_id, group_id) ==
    {m \in MemberIds : m = member_id}

(* update_member_role / remove_member: "Get the member to update" *)
MemberRow(member_id, group_id) ==
    {m \in MemberIds : m = member_id /\ members[m].group_id = group_id}

(* the self-demotion guard switched off *)
OwnerDemotesSelf_never(member, role_update, user) == FALSE

(* update_member_role: "Prevent owner from demoting themselves" *)
OwnerDemotesSelf(member, role_update, user) ==
    /\ member.user_id = user /\ member.role = OWNER
    /\ role_update.role # None /\ Value(role_update.role) # OWNER

(* the promotion rule guarding the OWNER role alone *)
OnlyOwnersPromote_to_owner(role_update, user_role) ==
    /\ role_update.role # None
    /\ Value(role_update.role) = OWNER
    /\ user_role # OWNER

(* update_member_role: "Only owners can promote to admin or owner" *)
OnlyOwnersPromote(role_update, user_role) ==
    /\ role_update.role # None
    /\ Value(role_update.role) \in {ADMIN, OWNER}
    /\ user_role # OWNER

UpdateMemberRole(group_id, member_id, role_update, user) ==
    /\ LET args == [gid |-> group_id, id |-> member_id, patch |-> role_update]
           Fail(result) == /\ last' = Call("UpdateMemberRole", user, result, args)
                           /\ UNCHANGED members
       IN
       IF InsufficientPermissions(user, group_id)
       THEN Fail(PermissionDenied)
       ELSE IF MemberRow(member_id, group_id) = {}
       THEN Fail(NotFound)
       ELSE LET member == members[member_id] IN
            IF OwnerDemotesSelf(member, role_update, user)
            THEN Fail(BadRequest)
            ELSE IF OnlyOwnersPromote(role_update, MembershipRole(user, group_id))
            THEN Fail(PermissionDenied)
            ELSE /\ members' = [members EXCEPT ![member_id] =
                        [@ EXCEPT
                           !.role = IF role_update.role # None
                                    THEN Value(role_update.role) ELSE @,
                           !.is_active = IF role_update.is_active # None
                                         THEN Value(role_update.is_active) ELSE @]]
                 /\ last' = Call("UpdateMemberRole", user, OK, args)
    /\ UNCHANGED <<requests, users, projects, incidents, groups, invitations, now>>

(* the self-removal guard applied to every role *)
OwnerRemovesSelf_any_role(member, user) == member.user_id = user

(* remove_member: "Prevent owner from removing themselves" *)
OwnerRemovesSelf(member, user) == member.user_id = user /\ member.role = OWNER

RemoveMember(group_id, member_id, user) ==
    /\ LET args == [gid |-> group_id, id |-> member_id]
           Fail(result) == /\ last' = Call("RemoveMember", user, result, args)
                           /\ UNCHANGED members
       IN
       IF InsufficientPermissions(user, group_id)
       THEN Fail(PermissionDenied)
       ELSE IF MemberRow(member_id, group_id) = {}
       THEN Fail(NotFound)
       ELSE IF OwnerRemovesSelf(members[member_id], user)
       THEN Fail(BadRequest)
       ELSE /\ members' = [members EXCEPT ![member_id].is_active = FALSE]
            /\ last' = Call("RemoveMember", user, OK, args)
    /\ UNCHANGED <<requests, users, projects, incidents, groups, invitations, now>>

(* ------------------------------ Projects ------------------------------- *)
(* SUBSCRIPTION_LIMITS[SubscriptionTier.FREE]["max_projects"]; every user   *)
(* is on the default tier                                                  *)
FreeMaxProjects == 1

(* LemonSqueezyService.can_create_project *)
can_create_project(user) ==
    Cardinality({p \in DOMAIN projects : projects[p].owner_id = user})
        < FreeMaxProjects

(* schemas.ProjectCreate *)
ProjectCreate(names, publics) == [name : names, is_public : publics]

(* models.Project as create_project fills it: group_id keeps its NULL *)
NewProject(project, owner_id) ==
    [name |-> project.name, owner_id |-> owner_id, group_id |-> NoGroup,
     is_public |-> project.is_public]

(* main.create_project; billing_enabled is config.is_billing_enabled() *)
CreateProject(project, user, billing_enabled) ==
    /\ IF billing_enabled /\ ~can_create_project(user)
       THEN /\ last' = Call("CreateProject", user, PermissionDenied,
                            [name |-> project.name])
            /\ UNCHANGED projects
       ELSE /\ projects' = Append(projects, NewProject(project, user))
            /\ last' = Call("CreateProject", user, OK,
                            [name |-> project.name, id |-> Len(projects) + 1])
    /\ UNCHANGED <<requests, users, incidents, groups, members, invitations, now>>

(* ------------------------------ Incidents ------------------------------ *)
(* SUBSCRIPTION_LIMITS[SubscriptionTier.FREE]["max_incidents_per_project"] *)
FreeMaxIncidents == 5

(* the tables a database session reads *)
Session ==
    [users |-> users, groups |-> groups, members |-> members,
     invitations |-> invitations, projects |-> projects, incidents |-> incidents]

(* the "action" argument of the access checks *)
AccessActions == {"read", "write"}

(* ----------------------- Resource Authorization ------------------------ *)
(* the project check that lets everyone read a public project *)
check_project_access_public_read(user_id, project_id, action, db) ==
    /\ project_id \in DOMAIN db.projects
    /\ \/ db.projects[project_id].owner_id = user_id
       \/ action = "read" /\ db.projects[project_id].is_public

(* the project check opened to every active member of the project's group  *)
(* for reading                                                             *)
check_project_access_group_read(user_id, project_id, action, db) ==
    /\ project_id \in DOMAIN db.projects
    /\ \/ db.projects[project_id].owner_id = user_id
       \/ /\ action = "read"
          /\ ActiveMemberships(db.members, user_id,
                               db.projects[project_id].group_id) # {}

(* AuthorizationService.check_project_access *)
check_project_access(user_id, project_id, action, db) ==
    IF project_id \notin DOMAIN db.projects
    THEN FALSE
    ELSE IF db.projects[project_id].owner_id # user_id
    THEN FALSE
    ELSE TRUE

(* the incident check that stops at the incident's existence *)
check_incident_access_any_owner(user_id, incident_id, action, db) ==
    incident_id \in DOMAIN db.incidents

(* AuthorizationService.check_incident_access *)
check_incident_access(user_id, incident_id, action, db) ==
    IF incident_id \notin DOMAIN db.incidents
    THEN FALSE
    ELSE LET project_id == db.incidents[incident_id].project_id IN
         IF \/ project_id \notin DOMAIN db.projects
            \/ db.projects[project_id].owner_id # user_id
         THEN FALSE
         ELSE TRUE

(* the guard that hides other owners' projects behind 404 *)
require_project_access_hiding(user, project_id, action, db) ==
    IF ~check_project_access(user, project_id, action, db)
    THEN NotFound
    ELSE OK

(* authorization.require_project_access: OK when it returns, else the error *)
require_project_access(user, project_id, action, db) ==
    IF ~check_project_access(user, project_id, action, db)
    THEN IF project_id \notin DOMAIN db.projects
         THEN NotFound
         ELSE PermissionDenied
    ELSE OK

(* authorization.require_incident_access *)
require_incident_access(user, incident_id, action, db) ==
    IF ~check_incident_access(user, incident_id, action, db)
    THEN IF incident_id \notin DOMAIN db.incidents
         THEN NotFound
         ELSE PermissionDenied
    ELSE OK

(* a call of check_project_access; the caller gets the boolean *)
CheckProjectAccess(user_id, project_id, action) ==
    /\ last' = Call("CheckProjectAccess", user_id,
                    IF check_project_access(user_id, project_id, action, Session)
                    THEN Allowed ELSE Denied,
                    [id |-> project_id, action |-> action])
    /\ UNCHANGED <<requests, users, projects, incidents, groups, members, invitations, now>>

(* a call of check_incident_access *)
CheckIncidentAccess(user_id, incident_id, action) ==
    /\ last' = Call("CheckIncidentAccess", user_id,
                    IF check_incident_access(user_id, incident_id, action, Session)
                    THEN Allowed ELSE Denied,
                    [id |-> incident_id, action |-> action])
    /\ UNCHANGED <<requests, users, projects, incidents, groups, members, invitations, now>>

(* an endpoint that only reads behind require_project_access *)
RequireProjectAccess(user, project_id, action) ==
    /\ last' = Call("RequireProjectAccess", user,
                    require_project_access(user, project_id, action, Session),
                    [id |-> project_id, action |-> action])
    /\ UNCHANGED <<requests, users, projects, incidents, groups, members, invitations, now>>

(* an endpoint behind require_incident_access, before its write *)
RequireIncidentAccess(user, incident_id, action) ==
    /\ last' = Call("RequireIncidentAccess", user,
                    require_incident_access(user, incident_id, action, Session),
                    [id |-> incident_id, action |-> action])
    /\ UNCHANGED <<requests, users, projects, incidents, groups, members, invitations, now>>

(* LemonSqueezyService.can_create_incident *)
can_create_incident(user, project_id) ==
    /\ project_id \in DOMAIN projects
    /\ projects[project_id].owner_id = user
    /\ Cardinality({i \in DOMAIN incidents : incidents[i].project_id = project_id})
          < FreeMaxIncidents

(* schemas.IncidentCreate *)
IncidentCreate(project_ids, titles) == [project_id : project_ids, title : titles]

(* main.create_incident *)
CreateIncident(incident, user, billing_enabled) ==
    /\ LET args == [id |-> incident.project_id, name |-> incident.title]
           access == require_project_access(user, incident.project_id, "write", Session)
       IN
       IF access # OK
       THEN /\ last' = Call("CreateIncident", user, access, args)
            /\ UNCHANGED incidents
       ELSE IF billing_enabled /\ ~can_create_incident(user, incident.project_id)
       THEN /\ last' = Call("CreateIncident", user, PermissionDenied, args)
            /\ UNCHANGED incidents
       ELSE /\ incidents' = Append(incidents,
                                   [project_id |-> incident.project_id,
                                    title |-> incident.title, resolved |-> FALSE])
            /\ last' = Call("CreateIncident", user, OK, args)
    /\ UNCHANGED <<requests, users, projects, groups, members, invitations, now>>

(* ----------------------- calls served side by side -------------------- *)
(* The store runs each statement against the rows committed so far (the    *)
(* engine's default isolation, no lock is taken and no isolation level is  *)
(* set); the session is created with autoflush=False, so the rows a call   *)
(* adds or changes reach the store at its db.commit(), all or none.        *)

(* the session takes the call to its next position *)
Goes(s, call, pc, held) ==
    requests' = [requests EXCEPT ![s] = Request(call, pc, held)]

(* create_group up to "db.add(db_group)": the uniqueness query *)
CreateGroupCheck(s, name, description, owner) ==
    /\ requests[s].pc = "idle"
    /\ IF NameTaken(owner, name, 0)
       THEN Goes(s, Call("CreateGroup", owner, Conflict, [name |-> name]),
                 "done", {})
       ELSE Goes(s, Call("CreateGroup", owner, OK, [name |-> name]),
                 "write", NewGroup(name, description, owner))
    /\ UNCHANGED <<users, projects, incidents, groups, members, invitations,
                   now, last>>

(* create_group from "db.flush()" to "db.commit()": the group and the      *)
(* owner's member row are stored; the groups table has no unique           *)
(* constraint that could refuse them                                       *)
CreateGroupCommit(s) ==
    /\ requests[s].pc = "write"
    /\ requests[s].call.op = "CreateGroup"
    /\ LET call == requests[s].call
           gid == Len(groups) + 1
       IN
       /\ groups' = Append(groups, requests[s].held)
       /\ members' = Append(members, NewMember(gid, call.actor, OWNER))
       /\ Goes(s, [call EXCEPT !.gid = gid], "done", {})
    /\ UNCHANGED <<users, projects, incidents, invitations, now, last>>

(* invite_user up to "db.add(invitation)": every check of the call; the   *)
(* session holds the new invitation                                        *)
InviteCheck(s, data, inviter, token) ==
    /\ requests[s].pc = "idle"
    /\ LET given == [gid |-> data.group_id, role |-> data.role,
                     email |-> IF data.invited_email = None THEN NoText
                               ELSE Value(data.invited_email),
                     uid |-> IF data.invited_user_id = None THEN NoUser
                             ELSE Value(data.invited_user_id)]
           Fail(result, args) == Goes(s, Call("Invite", inviter, result, args),
                                      "done", {})
       IN
       IF InsufficientPermissions(inviter, data.group_id)
       THEN Fail(PermissionDenied, given)
       ELSE IF data.group_id \notin GroupIds \/ ~groups[data.group_id].is_active
       THEN Fail(NotFound, given)
       ELSE IF data.invited_user_id # None /\ Value(data.invited_user_id) \notin UserIds
       THEN Fail(NotFound, given)
       ELSE LET invited_user == ResolvedUser(data)
                invited_email == ResolvedEmail(data)
                resolved == [gid |-> data.group_id, role |-> data.role,
                             email |-> invited_email, uid |-> invited_user]
            IN
            IF /\ invited_user # NoUser
               /\ ActiveMemberships(members, invited_user, data.group_id) # {}
            THEN Fail(AlreadyMember, resolved)
            ELSE IF ExistingInvitation(data.group_id, invited_email, invited_user) # {}
            THEN Fail(DuplicatePending, resolved)
            ELSE Goes(s, Call("Invite", inviter, OK, resolved), "write",
                      NewInvitation(data, invited_user, invited_email, inviter,
                                    token))
    /\ UNCHANGED <<users, projects, incidents, groups, members, invitations,
                   now, last>>

(* invite_user, "db.commit()": the invitation is stored unless its token   *)
(* repeats                                                                 *)
InviteCommit(s) ==
    /\ requests[s].pc = "write"
    /\ requests[s].call.op = "Invite"
    /\ LET call == requests[s].call
           created == Append(invitations, requests[s].held)
       IN
       IF ~TokenUnique(created)
       THEN /\ Goes(s, [call EXCEPT !.result = IntegrityError], "done", {})
            /\ UNCHANGED invitations
       ELSE /\ invitations' = created
            /\ Goes(s, [call EXCEPT !.id = Len(created)], "done", {})
    /\ UNCHANGED <<users, projects, incidents, groups, members, now, last>>

(* respond_to_invitation up to its membership query; a late response is    *)
(* committed as EXPIRED at once; otherwise the session holds the response  *)
(* and the rows the membership query found                                 *)
RespondCheck(s, invitation_id, response, user) ==
    /\ requests[s].pc = "idle"
    /\ LET args == [id |-> invitation_id, status |-> response.status] IN
       IF InvitationFor(invitation_id, user) = {}
       THEN /\ Goes(s, Call("Respond", user, NotFound, args), "done", {})
            /\ UNCHANGED invitations
       ELSE LET invitation == invitations[invitation_id] IN
            IF IsExpired(invitation.expires_at, now)
            THEN /\ invitations' = [invitations EXCEPT ![invitation_id] =
                                        ExpiredInvitation(invitation)]
                 /\ Goes(s, Call("Respond", user, Expired, args), "done", {})
            ELSE /\ Goes(s, Call("Respond", user, OK, args), "write",
                         [response |-> response,
                          existing_membership |->
                             IF AcceptsInvitation(response)
                             THEN ActiveMemberships(members, user,
                                                    invitation.group_id)
                             ELSE {}])
                 /\ UNCHANGED invitations
    /\ UNCHANGED <<users, projects, incidents, groups, members, now, last>>

(* respond_to_invitation, "db.commit()": the invitation row and, if the    *)
(* query had found no membership, the new member row are stored together,  *)
(* or neither when the store refuses the member row                        *)
RespondCommit(s) ==
    /\ requests[s].pc = "write"
    /\ requests[s].call.op = "Respond"
    /\ LET call == requests[s].call
           response == requests[s].held.response
           invitation == invitations[call.id]
           updated == [invitation EXCEPT
                          !.status = response.status,
                          !.responded_at = now,
                          !.message = IF response.message # None
                                      THEN Value(response.message) ELSE @]
           joined == IF /\ AcceptsInvitation(response)
                        /\ requests[s].held.existing_membership = {}
                     THEN Append(members, NewMember(invitation.group_id,
                                                    call.actor, invitation.role))
                     ELSE members
       IN
       IF ~_group_user_uc(joined)
       THEN /\ Goes(s, [call EXCEPT !.result = IntegrityError], "done", {})
            /\ UNCHANGED <<invitations, members>>
       ELSE /\ invitations' = [invitations EXCEPT ![call.id] = updated]
            /\ members' = joined
            /\ Goes(s, call, "done", {})
    /\ UNCHANGED <<users, projects, incidents, groups, now, last>>

(* remove_member up to "member.is_active = False": its checks; the session *)
(* holds the member row it loaded                                          *)
RemoveMemberCheck(s, group_id, member_id, user) ==
    /\ requests[s].pc = "idle"
    /\ LET args == [gid |-> group_id, id |-> member_id]
           Fail(result) == Goes(s, Call("RemoveMember", user, result, args),
                                "done", {})
       IN
       IF InsufficientPermissions(user, group_id)
       THEN Fail(PermissionDenied)
       ELSE IF MemberRow(member_id, group_id) = {}
       THEN Fail(NotFound)
       ELSE IF OwnerRemovesSelf(members[member_id], user)
       THEN Fail(BadRequest)
       ELSE Goes(s, Call("RemoveMember", user, OK, args), "write",
                 MemberRow(member_id, group_id))
    /\ UNCHANGED <<users, projects, incidents, groups, members, invitations,
                   now, last>>

(* remove_member, "db.commit()" *)
RemoveMemberCommit(s) ==
    /\ requests[s].pc = "write"
    /\ requests[s].call.op = "RemoveMember"
    /\ members' = [m \in MemberIds |->
                      IF m \in requests[s].held
                      THEN [members[m] EXCEPT !.is_active = FALSE]
                      ELSE members[m]]
    /\ Goes(s, requests[s].call, "done", {})
    /\ UNCHANGED <<users, projects, incidents, groups, invitations, now, last>>

(* the endpoint returns; the session is closed and serves the next request *)
Return(s) ==
    /\ requests[s].pc = "done"
    /\ requests' = [requests EXCEPT ![s] = NoRequest]
    /\ UNCHANGED <<users, projects, incidents, groups, members, invitations,
                   now, last>>

(* the HTTP layer hands the result to the caller; the next request may start *)
Deliver ==
    /\ last # NoCall
    /\ last' = NoCall
    /\ UNCHANGED <<requests, users, projects, incidents, groups, members, invitations, now>>

(* ------------------------- specifications ------------------------------ *)
(* requests are served one at a time *)
Ready == last = NoCall

(* ids a caller may name: the rows that exist and one that does not *)
SomeId(rows) == 1..(Len(rows) + 1)

(* Spec: one team and its invitations.  alice creates the group "Ops";     *)
(* users are invited by id and strangers by e-mail address, and every user *)
(* may call every operation on every group, member row and invitation.     *)
(* Group patches switch is_active, member patches switch is_active, and    *)
(* responses are ACCEPTED or DECLINED.                                     *)
Next ==
    \/ Ready /\ now + ExpiryStep <= MaxTime /\ AdvanceClock(ExpiryStep)
    \/ Ready /\ groups = <<>> /\ CreateGroup("Ops", NoText, 1)
    \/ Ready /\ \E g \in GroupIds, u \in UserIds,
                   p \in [name : {None}, description : {None},
                          is_active : Optional(BOOLEAN)] :
            UpdateGroup(g, p, u)
    \/ Ready /\ \E g \in GroupIds, u \in UserIds : DeleteGroup(g, u)
    \/ Ready /\ Len(invitations) < MaxInvitations
             /\ \E u \in UserIds, t \in Tokens,
                   d \in GroupInvitationCreate(GroupIds, UnknownEmails, UserIds,
                                               {MEMBER, ADMIN}, {}) :
            Invite(d, u, t)
    \/ Ready /\ \E i \in SomeId(invitations), u \in UserIds,
                   r \in GroupInvitationUpdate({ACCEPTED, DECLINED}, {}) :
            Respond(i, r, u)
    \/ Ready /\ \E g \in GroupIds, m \in MemberIds, u \in UserIds,
                   r \in GroupMemberUpdate({}) :
            UpdateMemberRole(g, m, r, u)
    \/ Ready /\ \E g \in GroupIds, m \in MemberIds, u \in UserIds :
            RemoveMember(g, m, u)
    \/ Deliver

Spec == Init /\ [][Next]_vars

(* SpecGroups: the group table alone.  alice and bob create, rename,       *)
(* describe, deactivate, reactivate and delete groups.                     *)
NextGroups ==
    \/ Ready /\ Len(groups) < MaxGroups
             /\ \E n \in Names, u \in UserIds : CreateGroup(n, NoText, u)
    \/ Ready /\ \E g \in SomeId(groups), u \in UserIds, p \in GroupUpdate :
            UpdateGroup(g, p, u)
    \/ Ready /\ \E g \in SomeId(groups), u \in UserIds : DeleteGroup(g, u)
    \/ Deliver

SpecGroups == Init /\ [][NextGroups]_vars

(* SpecTeam: the roles inside one team.  alice creates the group "Ops";    *)
(* bob is invited by id or by his e-mail address and accepts; members are  *)
(* promoted, demoted, switched off and on and removed; the group is        *)
(* renamed and switched off and on.  Every user may call every operation.  *)
NextTeam ==
    \/ Ready /\ groups = <<>> /\ CreateGroup("Ops", NoText, 1)
    \/ Ready /\ \E g \in GroupIds, u \in UserIds,
                   p \in [name : Optional({"ops"}), description : {None},
                          is_active : Optional(BOOLEAN)] :
            UpdateGroup(g, p, u)
    \/ Ready /\ Len(invitations) < MaxInvitations
             /\ \E u \in UserIds,
                   d \in GroupInvitationCreate(GroupIds, InviteeEmails, Invitees,
                                               {MEMBER, ADMIN}, {}) :
            Invite(d, u, "tokA")
    \/ Ready /\ \E i \in InvitationIds, u \in UserIds,
                   r \in GroupInvitationUpdate({ACCEPTED}, {}) :
            Respond(i, r, u)
    \/ Ready /\ \E g \in GroupIds, m \in MemberIds, u \in UserIds,
                   r \in GroupMemberUpdate(GroupRole) :
            UpdateMemberRole(g, m, r, u)
    \/ Ready /\ \E g \in GroupIds, m \in MemberIds, u \in UserIds :
            RemoveMember(g, m, u)
    \/ Deliver

SpecTeam == Init /\ [][NextTeam]_vars

(* SpecDelete: deleting teams.  Each user creates one group "Ops"; users   *)
(* invite each other by id, accept, hand out the OWNER role and remove     *)
(* members;                                                                *)
(* users create projects; every user may try to delete every group and one *)
(* that does not exist.                                                    *)
NextDelete ==
    \/ Ready /\ \E u \in UserIds :
            /\ \A g \in GroupIds : groups[g].owner_id # u
            /\ CreateGroup("Ops", "about", u)
    \/ Ready /\ Len(invitations) < MaxInvitations
             /\ \E u \in UserIds,
                   d \in GroupInvitationCreate(GroupIds, {}, UserIds, {ADMIN}, {}) :
            Invite(d, u, "tokA")
    \/ Ready /\ \E i \in InvitationIds, u \in UserIds,
                   r \in GroupInvitationUpdate({ACCEPTED}, {}) :
            Respond(i, r, u)
    \/ Ready /\ \E g \in GroupIds, m \in MemberIds, u \in UserIds :
            UpdateMemberRole(g, m, [role |-> {OWNER}, is_active |-> None], u)
    \/ Ready /\ \E g \in GroupIds, m \in MemberIds, u \in UserIds :
            RemoveMember(g, m, u)
    \/ Ready /\ \E g \in SomeId(groups), u \in UserIds : DeleteGroup(g, u)
    \/ Ready /\ Len(projects) < MaxProjects
             /\ \E u \in UserIds, b \in BOOLEAN,
                   p \in ProjectCreate(ProjectNames, {FALSE}) :
            CreateProject(p, u, b)
    \/ Deliver

SpecDelete == Init /\ [][NextDelete]_vars

(* SpecInvites: the life of invitations.  alice creates the group "Ops";  *)
(* bob is invited by id or by e-mail, carol by e-mail before or after she  *)
(* signs in, dave, who never signs in, by e-mail; invitations are accepted *)
(* or declined at once, exactly at their expiry instant, or after it.      *)
NextInvites ==
    \/ Ready /\ \E d \in ClockSteps : now + d <= MaxTime /\ AdvanceClock(d)
    \/ Ready /\ \E e \in Newcomers : SignIn(e)
    \/ Ready /\ groups = <<>> /\ CreateGroup("Ops", NoText, 1)
    \/ Ready /\ Len(invitations) < MaxInvitations
             /\ \E u \in UserIds, t \in Tokens,
                   d \in GroupInvitationCreate(GroupIds, InviteeEmails \cup UnknownEmails,
                                               Invitees, {MEMBER}, {}) :
            Invite(d, u, t)
    \/ Ready /\ \E i \in InvitationIds, u \in UserIds,
                   r \in GroupInvitationUpdate({ACCEPTED, DECLINED}, {}) :
            Respond(i, r, u)
    \/ Deliver

SpecInvites == Init /\ [][NextInvites]_vars

(* SpecAccess: the resource authorization gate.  Users create projects and *)
(* incidents and groups; the access checks and guards are called by every  *)
(* account, and by an id that is no account, for every project and         *)
(* incident id that exists and one that does not.                          *)
NextAccess ==
    \/ Ready /\ Len(projects) < MaxProjects
             /\ \E u \in UserIds, b \in BOOLEAN,
                   p \in ProjectCreate(ProjectNames, BOOLEAN) :
            CreateProject(p, u, b)
    \/ Ready /\ Len(incidents) < MaxIncidents
             /\ \E u \in UserIds, b \in BOOLEAN,
                   i \in IncidentCreate(SomeId(projects), IncidentTitles) :
            CreateIncident(i, u, b)
    \/ Ready /\ \E u \in UserIds :
            /\ \A g \in GroupIds : groups[g].owner_id # u
            /\ CreateGroup("Ops", NoText, u)
    \/ Ready /\ \E u \in SomeId(users), p \in SomeId(projects), a \in AccessActions :
            CheckProjectAccess(u, p, a)
    \/ Ready /\ \E u \in SomeId(users), i \in SomeId(incidents), a \in AccessActions :
            CheckIncidentAccess(u, i, a)
    \/ Ready /\ \E u \in UserIds, p \in SomeId(projects), a \in AccessActions :
            RequireProjectAccess(u, p, a)
    \/ Ready /\ \E u \in UserIds, i \in SomeId(incidents), a \in AccessActions :
            RequireIncidentAccess(u, i, a)
    \/ Deliver

SpecAccess == Init /\ [][NextAccess]_vars

(* SpecAdmins: elevated roles handed out by invitation.  carol signs in;   *)
(* alice creates the group "Ops"; every user may invite every account by   *)
(* id with role ADMIN or OWNER, and the invited accept.  No role is        *)
(* changed afterwards, so an inviter's role is the one held at the         *)
(* invitation.                                                             *)
NextAdmins ==
    \/ Ready /\ \E e \in Newcomers : SignIn(e)
    \/ Ready /\ groups = <<>> /\ CreateGroup("Ops", NoText, 1)
    \/ Ready /\ Len(invitations) < MaxInvitations
             /\ \E u \in UserIds,
                   d \in GroupInvitationCreate(GroupIds, {}, UserIds,
                                               {ADMIN, OWNER}, {}) :
            Invite(d, u, "tokA")
    \/ Ready /\ \E i \in InvitationIds, u \in UserIds,
                   r \in GroupInvitationUpdate({ACCEPTED}, {}) :
            Respond(i, r, u)
    \/ Deliver

SpecAdmins == Init /\ [][NextAdmins]_vars

(* SpecResponses: every value the response schema admits.  alice creates   *)
(* the group "Ops"; bob is invited by id; the invited answer with each of  *)
(* the four values of InvitationStatus, before, at and after the expiry.   *)
NextResponses ==
    \/ Ready /\ \E d \in ClockSteps : now + d <= MaxTime /\ AdvanceClock(d)
    \/ Ready /\ groups = <<>> /\ CreateGroup("Ops", NoText, 1)
    \/ Ready /\ Len(invitations) < MaxInvitations
             /\ \E u \in UserIds,
                   d \in GroupInvitationCreate(GroupIds, {}, Invitees,
                                               {MEMBER}, {}) :
            Invite(d, u, "tokA")
    \/ Ready /\ \E i \in InvitationIds, u \in UserIds,
                   r \in GroupInvitationUpdate(InvitationStatus, {}) :
            Respond(i, r, u)
    \/ Deliver

SpecResponses == Init /\ [][NextResponses]_vars

(* SpecFailures: calls that fail.  alice creates groups; bob is invited as *)
(* ADMIN by id and answers in time or late; groups are patched in   *)
(* name, description and is_active at once and deleted; member rows are    *)
(* patched in role and is_active at once and removed.  Every user may call every operation on  *)
(* ids that exist and on one that does not.                                *)
NextFailures ==
    \/ Ready /\ now + ExpiryStep <= MaxTime /\ AdvanceClock(ExpiryStep)
    \/ Ready /\ Len(groups) < MaxGroups /\ CreateGroup("Ops", NoText, 1)
    \/ Ready /\ \E g \in SomeId(groups), u \in UserIds,
                   p \in [name : {{"ops"}}, description : {{"about"}},
                          is_active : {{FALSE}}] :
            UpdateGroup(g, p, u)
    \/ Ready /\ \E g \in SomeId(groups), u \in UserIds : DeleteGroup(g, u)
    \/ Ready /\ Len(invitations) < MaxInvitations
             /\ \E u \in UserIds,
                   d \in GroupInvitationCreate({1, MaxGroups + 1}, {}, Invitees,
                                               {ADMIN}, {}) :
            Invite(d, u, "tokA")
    \/ Ready /\ \E i \in SomeId(invitations), u \in UserIds,
                   r \in GroupInvitationUpdate({ACCEPTED, DECLINED}, {}) :
            Respond(i, r, u)
    \/ Ready /\ \E g \in GroupIds, m \in SomeId(members), u \in UserIds,
                   r \in [role : {{ADMIN}, {MEMBER}}, is_active : {{FALSE}}] :
            UpdateMemberRole(g, m, r, u)
    \/ Ready /\ \E g \in GroupIds, m \in SomeId(members), u \in UserIds :
            RemoveMember(g, m, u)
    \/ Deliver

SpecFailures == Init /\ [][NextFailures]_vars

(* SpecRaceCreate: alice sends CreateGroup twice at the same time, from    *)
(* two sessions, again and again; she also deletes groups.                 *)
NextRaceCreate ==
    \/ \E s \in Sessions, n \in Names :
           Len(groups) + Cardinality({t \in Sessions : requests[t].pc = "write"})
              < MaxGroups
           /\ CreateGroupCheck(s, n, NoText, 1)
    \/ \E s \in Sessions : CreateGroupCommit(s)
    \/ \E s \in Sessions : Return(s)
    \/ Ready /\ \E g \in GroupIds : DeleteGroup(g, 1)
    \/ Deliver

SpecRaceCreate == Init /\ [][NextRaceCreate]_vars

(* the sessions whose call of the operation waits for its commit *)
Writing(op) ==
    {s \in Sessions : requests[s].pc = "write" /\ requests[s].call.op = op}

(* SpecRaceInvite: invitations and removals at the same time.  alice       *)
(* creates the group "Ops", invites bob as ADMIN and bob accepts, one call *)
(* at a time; then every user invites carol by her e-mail address and      *)
(* removes members from two sessions whose steps interleave.               *)
NextRaceInvite ==
    \/ Ready /\ groups = <<>> /\ CreateGroup("Ops", NoText, 1)
    \/ Ready /\ invitations = <<>>
             /\ \E d \in GroupInvitationCreate(GroupIds, {}, Invitees, {ADMIN}, {}) :
                   Invite(d, 1, "tokA")
    \/ Ready /\ \E i \in InvitationIds, u \in Invitees,
                   r \in GroupInvitationUpdate({ACCEPTED}, {}) :
            /\ invitations[i].invited_user_id = u
            /\ Respond(i, r, u)
    \/ \E s \in Sessions, u \in UserIds, t \in Tokens,
          d \in GroupInvitationCreate(GroupIds, Newcomers, {}, {MEMBER}, {}) :
           /\ Cardinality({i \in InvitationIds : invitations[i].status = PENDING})
                 + Cardinality(Writing("Invite")) < MaxInvitations
           /\ InviteCheck(s, d, u, t)
    \/ \E s \in Sessions : InviteCommit(s)
    \/ \E s \in Sessions, g \in GroupIds, m \in MemberIds, u \in UserIds :
           RemoveMemberCheck(s, g, m, u)
    \/ \E s \in Sessions : RemoveMemberCommit(s)
    \/ \E s \in Sessions : Return(s)
    \/ Deliver

SpecRaceInvite == Init /\ [][NextRaceInvite]_vars

(* SpecRaceRespond: acceptances at the same time.  alice creates the group *)
(* "Ops" and invites bob by id from two sessions, so that bob may hold one *)
(* invitation or two; bob accepts from two sessions whose steps            *)
(* interleave, the same invitation twice or one invitation in each.        *)
NextRaceRespond ==
    \/ Ready /\ groups = <<>> /\ CreateGroup("Ops", NoText, 1)
    \/ \E s \in Sessions,
          d \in GroupInvitationCreate(GroupIds, {}, Invitees, {MEMBER}, {}) :
           /\ Len(invitations) + Cardinality(Writing("Invite")) < MaxInvitations
           /\ InviteCheck(s, d, 1, "tokA")
    \/ \E s \in Sessions : InviteCommit(s)
    \/ \E s \in Sessions, i \in InvitationIds, u \in Invitees,
          r \in GroupInvitationUpdate({ACCEPTED}, {}) :
           RespondCheck(s, i, r, u)
    \/ \E s \in Sessions : RespondCommit(s)
    \/ \E s \in Sessions : Return(s)
    \/ Deliver

SpecRaceRespond == Init /\ [][NextRaceRespond]_vars

(* ============================== claims ================================= *)
(* user u is the principal invitation i was addressed to *)
InvitedPrincipal(i, u) ==
    \/ invitations[i].invited_user_id = u
    \/ invitations[i].invited_email = users[u]

(* rows of the pair (group g, user u), active or not *)
RowsOf(ms, g, u) == {m \in DOMAIN ms : ms[m].group_id = g /\ ms[m].user_id = u}

(* C1: an invitation whose status is ACCEPTED, DECLINED or EXPIRED keeps    *)
(* that status through every later call of every operation.                *)
C1_TerminalStatusIsFinal ==
    [][\A i \in InvitationIds :
          invitations[i].status \in Terminal
            => /\ i \in DOMAIN invitations'
               /\ invitations'[i].status = invitations[i].status]_vars

(* the invitee responds again to an invitation that is already terminal *)
C1_Witness ==
    \E i \in InvitationIds :
        /\ invitations[i].status \in Terminal
        /\ last.op = "Respond" /\ last.id = i /\ last.result = NotFound
        /\ InvitedPrincipal(i, last.actor)

(* C2: every (group_id, user_id) pair has at most one member row with      *)
(* is_active = true, in every reachable state.                             *)
C2_AtMostOneActiveMembership ==
    \A g \in GroupIds, u \in UserIds :
        Cardinality(ActiveMemberships(members, u, g)) <= 1

(* a removed member was invited again, and the old row is switched back on *)
(* by UpdateMemberRole(is_active = true) while that invitation is pending  *)
C2_Witness ==
    \E i \in InvitationIds, m \in MemberIds :
        /\ invitations[i].status = PENDING
        /\ invitations[i].invited_user_id = members[m].user_id
        /\ invitations[i].group_id = members[m].group_id
        /\ members[m].is_active
        /\ last.op = "UpdateMemberRole" /\ last.result = OK /\ last.id = m
        /\ last.patch.is_active = {TRUE}

(* C3: right after a successful CreateGroup the new group is active and    *)
(* owned by the caller, exactly one active OWNER row exists for it and it  *)
(* is the owner's; no group is ever stored without a member row.           *)
C3_CreateGroupBootstrapsOwner ==
    /\ (last.op = "CreateGroup" /\ last.result = OK) =>
          LET g == last.gid
              owners == {m \in MemberIds : /\ members[m].group_id = g
                                           /\ members[m].role = OWNER
                                           /\ members[m].is_active}
          IN /\ g \in GroupIds
             /\ groups[g].is_active
             /\ groups[g].owner_id = last.actor
             /\ groups[g].name = last.name
             /\ Cardinality(owners) = 1
             /\ \A m \in owners : members[m].user_id = groups[g].owner_id
    /\ \A g \in GroupIds : RowsOf(members, g, groups[g].owner_id) # {}

(* bob has just created the second group *)
C3_Witness ==
    /\ last.op = "CreateGroup" /\ last.result = OK
    /\ last.gid = 2 /\ last.actor = 2

(* C4: no two active groups of the same owner have the same name.          *)
C4_ActiveNamesUniquePerOwner ==
    \A a, b \in GroupIds :
        (/\ a # b
         /\ groups[a].is_active /\ groups[b].is_active
         /\ groups[a].owner_id = groups[b].owner_id)
            => groups[a].name # groups[b].name

(* C5: CreateGroup reports Conflict exactly when an active group of that   *)
(* owner has exactly that name; on Conflict nothing is stored, otherwise   *)
(* the group is.                                                           *)
C5_CreateGroupConflictIff ==
    [][last'.op = "CreateGroup" =>
          /\ last'.result \in {OK, Conflict}
          /\ last'.result = Conflict
                <=> \E g \in GroupIds : /\ groups[g].is_active
                                        /\ groups[g].name = last'.name
                                        /\ groups[g].owner_id = last'.actor
          /\ last'.result = Conflict => groups' = groups /\ members' = members
          /\ last'.result = OK => /\ Len(groups') = Len(groups) + 1
                                  /\ Len(members') = Len(members) + 1]_vars

(* a group is created although a soft-deleted group of the same owner      *)
(* carries the name                                                        *)
C5_Witness ==
    /\ last.op = "CreateGroup" /\ last.result = OK
    /\ \E g \in GroupIds : /\ g # last.gid
                           /\ ~groups[g].is_active
                           /\ groups[g].name = last.name
                           /\ groups[g].owner_id = last.actor

(* the step is a Respond(ACCEPTED) by the invited principal on invitation  *)
(* i, which is PENDING and not past its expiry                             *)
AcceptInTime(i) ==
    /\ last'.op = "Respond" /\ last'.id = i /\ last'.status = ACCEPTED
    /\ invitations[i].status = PENDING
    /\ InvitedPrincipal(i, last'.actor)
    /\ ~(invitations[i].expires_at < now)

(* C6: Respond(ACCEPTED) by the invited principal on a PENDING, unexpired  *)
(* invitation sets it ACCEPTED, stamps responded_at and leaves the         *)
(* responder an active member; without an active membership before, one    *)
(* row with the invitation's role is added, otherwise no row is touched.   *)
C6_AcceptJoinsGroup ==
    [][\A i \in InvitationIds :
          AcceptInTime(i) =>
            LET u == last'.actor
                g == invitations[i].group_id
            IN /\ invitations'[i].status = ACCEPTED
               /\ invitations'[i].responded_at = now
               /\ ActiveMemberships(members', u, g) # {}
               /\ ActiveMemberships(members, u, g) = {}
                    => members' = Append(members,
                                         [group_id |-> g, user_id |-> u,
                                          role |-> invitations[i].role,
                                          is_active |-> TRUE])
               /\ ActiveMemberships(members, u, g) # {} => members' = members]_vars

(* C7: a user whose membership was removed can be invited again, and the   *)
(* user's Respond(ACCEPTED) within the expiry window succeeds and leaves   *)
(* an active membership with the invited role.                             *)
C7_RejoinAfterRemoval ==
    [][/\ \A i \in InvitationIds :
            (/\ AcceptInTime(i)
             /\ \E m \in RowsOf(members, invitations[i].group_id, last'.actor) :
                    ~members[m].is_active)
               => /\ last'.result = OK
                  /\ \E m \in DOMAIN members' :
                        /\ members'[m].group_id = invitations[i].group_id
                        /\ members'[m].user_id = last'.actor
                        /\ members'[m].is_active
                        /\ members'[m].role = invitations[i].role
       /\ (/\ last'.op = "Invite"
           /\ last'.uid # NoUser
           /\ \E m \in RowsOf(members, last'.gid, last'.uid) : ~members[m].is_active)
              => last'.result # AlreadyMember]_vars

(* C8: an Invite that passed the permission, group, target and membership  *)
(* checks reports DuplicatePending exactly when the group has a PENDING    *)
(* invitation with the resolved user id or with the target e-mail.         *)
C8_DuplicatePendingIff ==
    [][(last'.op = "Invite" /\ last'.result \in {OK, IntegrityError, DuplicatePending})
          => (last'.result = DuplicatePending
                <=> \E i \in InvitationIds :
                        /\ invitations[i].group_id = last'.gid
                        /\ invitations[i].status = PENDING
                        /\ \/ /\ last'.uid # NoUser
                              /\ invitations[i].invited_user_id = last'.uid
                           \/ invitations[i].invited_email = last'.email)]_vars

(* the step is a Respond by the invited principal on invitation i, whose   *)
(* expires_at is earlier than the current time                             *)
RespondTooLate(i) ==
    /\ last'.op = "Respond" /\ last'.id = i
    /\ InvitedPrincipal(i, last'.actor)
    /\ invitations[i].expires_at < now

(* C9: Respond by the invited principal on a PENDING invitation past its   *)
(* expires_at stores EXPIRED whatever status was requested, reports        *)
(* Expired and creates no membership.                                      *)
C9_ExpiredOnTouch ==
    [][\A i \in InvitationIds :
          (RespondTooLate(i) /\ invitations[i].status = PENDING)
            => /\ invitations'[i].status = EXPIRED
               /\ last'.result = Expired
               /\ members' = members]_vars

(* bob accepted too late: the invitation is EXPIRED and bob is no member   *)
C9_Witness ==
    /\ last.op = "Respond" /\ last.result = Expired /\ last.status = ACCEPTED
    /\ invitations[last.id].status = EXPIRED
    /\ invitations[last.id].expires_at < now
    /\ RowsOf(members, invitations[last.id].group_id, last.actor) = {}

(* C10 as stated: the first and every repeated Respond on an expired       *)
(* invitation reports Expired and leaves it EXPIRED.                       *)
C10_ExpiredEveryTime ==
    [][\A i \in InvitationIds :
          (RespondTooLate(i) /\ invitations[i].status \in {PENDING, EXPIRED})
            => /\ last'.result = Expired
               /\ invitations'[i].status = EXPIRED]_vars

(* C10 amended: the first Respond on an expired PENDING invitation reports *)
(* Expired and stores EXPIRED; every repeated Respond reports NotFound and *)
(* leaves the invitation EXPIRED and everything else as it was.            *)
C10_ExpiredOnceThenNotFound ==
    [][\A i \in InvitationIds :
          /\ (RespondTooLate(i) /\ invitations[i].status = PENDING)
                => /\ last'.result = Expired
                   /\ invitations'[i].status = EXPIRED
          /\ (RespondTooLate(i) /\ invitations[i].status = EXPIRED)
                => /\ last'.result = NotFound
                   /\ invitations' = invitations
                   /\ members' = members]_vars

(* the invitee responds a second time to the invitation that expired *)
C10_Witness ==
    /\ last.op = "Respond" /\ last.result = NotFound
    /\ last.id \in InvitationIds
    /\ invitations[last.id].status = EXPIRED
    /\ invitations[last.id].expires_at < now
    /\ InvitedPrincipal(last.id, last.actor)

(* C11: Respond on an invitation that does not exist or whose status is    *)
(* ACCEPTED, DECLINED or EXPIRED reports NotFound and leaves every         *)
(* invitation and every membership as it was; a second Respond(ACCEPTED)   *)
(* adds no second member row.                                              *)
C11_RespondTerminalNotFound ==
    [][(/\ last'.op = "Respond"
        /\ \/ last'.id \notin InvitationIds
           \/ invitations[last'.id].status \in Terminal)
          => /\ last'.result = NotFound
             /\ invitations' = invitations
             /\ members' = members]_vars

(* the invitee accepts a second time: the invitation stays ACCEPTED with   *)
(* its first responded_at and the invitee has one row                      *)
C11_Witness ==
    /\ last.op = "Respond" /\ last.status = ACCEPTED /\ last.result = NotFound
    /\ last.id \in InvitationIds
    /\ invitations[last.id].status = ACCEPTED
    /\ invitations[last.id].responded_at # NoTime
    /\ InvitedPrincipal(last.id, last.actor)
    /\ Cardinality(RowsOf(members, invitations[last.id].group_id, last.actor)) = 1

(* C12: an invitation changes only through a Respond of an actor whose id  *)
(* is its invited_user_id or whose e-mail is its invited_email; a Respond  *)
(* of any other actor, the inviter and the group's OWNER included, reports *)
(* NotFound and changes no invitation and no membership, also past the     *)
(* expiry.                                                                 *)
C12_OnlyInvitedPrincipalResponds ==
    [][/\ (/\ last'.op = "Respond"
           /\ last'.id \in InvitationIds
           /\ ~InvitedPrincipal(last'.id, last'.actor))
             => /\ last'.result = NotFound
                /\ invitations' = invitations
                /\ members' = members
       /\ \A i \in InvitationIds :
             invitations'[i] # invitations[i]
                => /\ last'.op = "Respond" /\ last'.id = i
                   /\ InvitedPrincipal(i, last'.actor)]_vars

(* the group's OWNER, who sent the invitation, answers it after its expiry: *)
(* NotFound, and the invitation is still PENDING                           *)
C12_Witness ==
    /\ last.op = "Respond" /\ last.result = NotFound
    /\ last.id \in InvitationIds
    /\ ~InvitedPrincipal(last.id, last.actor)
    /\ invitations[last.id].invited_by_id = last.actor
    /\ invitations[last.id].status = PENDING
    /\ invitations[last.id].expires_at < now
    /\ \E m \in _get_user_group_membership(last.actor, invitations[last.id].group_id) :
          members[m].role = OWNER

(* user u holds an active membership with role r in group g *)
HoldsRole(u, g, r) ==
    \E m \in MemberIds : /\ members[m].user_id = u /\ members[m].group_id = g
                         /\ members[m].is_active /\ members[m].role = r

(* C13: Invite, UpdateGroup, UpdateMemberRole and RemoveMember on group g  *)
(* by an actor without an active OWNER or ADMIN membership in g (a MEMBER, *)
(* a non-member, a removed member) report PermissionDenied and change no   *)
(* group, membership or invitation.                                        *)
C13_PermissionFloor ==
    [][(/\ last'.op \in {"Invite", "UpdateGroup", "UpdateMemberRole", "RemoveMember"}
        /\ ~HoldsRole(last'.actor, last'.gid, OWNER)
        /\ ~HoldsRole(last'.actor, last'.gid, ADMIN))
          => /\ last'.result = PermissionDenied
             /\ groups' = groups
             /\ members' = members
             /\ invitations' = invitations]_vars

(* a former ADMIN whose membership was removed tries to invite *)
C13_Witness ==
    /\ last.op = "Invite" /\ last.result = PermissionDenied
    /\ \E m \in RowsOf(members, last.gid, last.actor) :
          ~members[m].is_active /\ members[m].role = ADMIN

(* the step is an UpdateMemberRole on row m of the named group, which is   *)
(* another user's, asking for role ADMIN or OWNER                          *)
PromotesOther(m) ==
    /\ last'.op = "UpdateMemberRole" /\ last'.id = m
    /\ members[m].group_id = last'.gid
    /\ members[m].user_id # last'.actor
    /\ last'.patch.role \in {{ADMIN}, {OWNER}}

(* C14: UpdateMemberRole asking ADMIN or OWNER for another member fails    *)
(* with PermissionDenied and leaves the target's role and is_active when   *)
(* the actor's role is ADMIN; when the actor's role is OWNER it succeeds   *)
(* and the target has the requested role.                                  *)
C14_OnlyOwnersPromote ==
    [][\A m \in MemberIds :
          PromotesOther(m) =>
            /\ HoldsRole(last'.actor, last'.gid, ADMIN)
                  => /\ last'.result = PermissionDenied
                     /\ members'[m].role = members[m].role
                     /\ members'[m].is_active = members[m].is_active
            /\ HoldsRole(last'.actor, last'.gid, OWNER)
                  => /\ last'.result = OK
                     /\ members'[m].role = Value(last'.patch.role)]_vars

(* an ADMIN asked for the ADMIN role for another member and was refused *)
C14_Witness ==
    /\ last.op = "UpdateMemberRole" /\ last.result = PermissionDenied
    /\ last.patch.role = {ADMIN}
    /\ HoldsRole(last.actor, last.gid, ADMIN)
    /\ last.id \in MemberIds
    /\ members[last.id].group_id = last.gid
    /\ members[last.id].user_id # last.actor

(* the step is an UpdateMemberRole on the actor's own row m, whose role is *)
(* OWNER, asking for role ADMIN or MEMBER                                  *)
DemotesSelf(m) ==
    /\ last'.op = "UpdateMemberRole" /\ last'.id = m
    /\ members[m].group_id = last'.gid
    /\ members[m].user_id = last'.actor
    /\ members[m].is_active
    /\ members[m].role = OWNER
    /\ last'.patch.role \in {{ADMIN}, {MEMBER}}

C16_SelfRemoval ==
    [][\A m \in MemberIds :
          (/\ last'.op = "RemoveMember" /\ last'.id = m
           /\ members[m].group_id = last'.gid
           /\ members[m].user_id = last'.actor
           /\ members[m].is_active)
            => /\ members[m].role = OWNER
                    => /\ last'.result # OK
                       /\ members' = members
               /\ members[m].role = ADMIN
                    => /\ last'.result = OK
                       /\ members' = [members EXCEPT ![m].is_active = FALSE]]_vars

(* an ADMIN removed the own membership: the row is kept, switched off *)
C16_Witness ==
    /\ last.op = "RemoveMember" /\ last.result = OK
    /\ last.id \in MemberIds
    /\ members[last.id].user_id = last.actor
    /\ members[last.id].role = ADMIN
    /\ ~members[last.id].is_active

(* C17: DeleteGroup succeeds exactly when the group exists and the actor   *)
(* is its owner_id; any other actor, an ADMIN or OWNER-role member         *)
(* included, gets PermissionDenied and the group is left as it was; for a  *)
(* group that does not exist the result is NotFound.                       *)
C17_DeleteGroupOwnerOnly ==
    [][last'.op = "DeleteGroup" =>
          LET g == last'.gid IN
          /\ last'.result = OK
                <=> (g \in GroupIds /\ groups[g].owner_id = last'.actor)
          /\ g \notin GroupIds => last'.result = NotFound
          /\ (g \in GroupIds /\ groups[g].owner_id # last'.actor)
                => /\ last'.result = PermissionDenied
                   /\ groups' = groups]_vars

(* bob, who holds the OWNER role in alice's group, may not delete it *)
C17_Witness ==
    /\ last.op = "DeleteGroup" /\ last.result = PermissionDenied
    /\ HoldsRole(last.actor, last.gid, OWNER)
    /\ groups[last.gid].owner_id # last.actor
    /\ groups[last.gid].is_active

C19_OnlyOwnerSwitchesGroup ==
    [][last'.op = "UpdateGroup" =>
          \A g \in GroupIds :
             /\ (g = last'.gid /\ HoldsRole(last'.actor, g, ADMIN))
                   => groups'[g].is_active = groups[g].is_active
             /\ groups'[g].is_active # groups[g].is_active
                   => (g = last'.gid /\ HoldsRole(last'.actor, g, OWNER))]_vars

(* an ADMIN renamed the group and asked to switch it off in the same       *)
(* patch: the call succeeded, the name changed, the group is still active  *)
C19_Witness ==
    /\ last.op = "UpdateGroup" /\ last.result = OK
    /\ HoldsRole(last.actor, last.gid, ADMIN)
    /\ last.patch.is_active = {FALSE}
    /\ last.patch.name # None
    /\ groups[last.gid].name = Value(last.patch.name)
    /\ groups[last.gid].is_active

(* the step is an Invite to group g by an actor with an active OWNER or    *)
(* ADMIN membership, and g is active: the call reaches the member check,   *)
(* and its record names the user the target resolved to                    *)
InviteReachesMemberCheck ==
    /\ last'.op = "Invite"
    /\ last'.gid \in GroupIds
    /\ groups[last'.gid].is_active
    /\ \/ HoldsRole(last'.actor, last'.gid, OWNER)
       \/ HoldsRole(last'.actor, last'.gid, ADMIN)
    /\ last'.uid \in UserIds
    /\ users[last'.uid] = last'.email

(* C20: an authorised Invite to an active group whose target, given by id  *)
(* or by a registered e-mail, is a user with an active membership in the   *)
(* group reports AlreadyMember and creates no invitation; when the user's  *)
(* only membership row is inactive the result is not AlreadyMember.        *)
C20_AlreadyMember ==
    [][InviteReachesMemberCheck =>
          LET rows == RowsOf(members, last'.gid, last'.uid) IN
          /\ (\E m \in rows : members[m].is_active)
                => /\ last'.result = AlreadyMember
                   /\ invitations' = invitations
          /\ (\A m \in rows : ~members[m].is_active)
                => last'.result # AlreadyMember]_vars

(* bob is an active member and is invited again: AlreadyMember *)
C20_Witness ==
    /\ last.op = "Invite" /\ last.result = AlreadyMember
    /\ last.email \in InviteeEmails
    /\ \E m \in RowsOf(members, last.gid, last.uid) : members[m].is_active
    /\ \E i \in InvitationIds :
          invitations[i].invited_user_id = last.uid /\ invitations[i].status = ACCEPTED

(* the step is a Respond(DECLINED) by the invited principal on invitation  *)
(* i, which is PENDING and not past its expiry                             *)
DeclineInTime(i) ==
    /\ last'.op = "Respond" /\ last'.id = i /\ last'.status = DECLINED
    /\ invitations[i].status = PENDING
    /\ InvitedPrincipal(i, last'.actor)
    /\ ~(invitations[i].expires_at < now)

(* C21: Respond(DECLINED) by the invited principal on a PENDING, unexpired *)
(* invitation succeeds, sets it DECLINED, stamps responded_at and leaves   *)
(* every member row as it was.                                             *)
C21_DeclineJoinsNothing ==
    [][\A i \in InvitationIds :
          DeclineInTime(i) => /\ last'.result = OK
                              /\ invitations'[i].status = DECLINED
                              /\ invitations'[i].responded_at = now
                              /\ members' = members]_vars

(* carol, invited by e-mail before she signed in, declined: she has no row *)
C21_Witness ==
    /\ last.op = "Respond" /\ last.status = DECLINED /\ last.result = OK
    /\ invitations[last.id].status = DECLINED
    /\ invitations[last.id].responded_at = now
    /\ invitations[last.id].invited_user_id = NoUser
    /\ invitations[last.id].invited_email = users[last.actor]
    /\ RowsOf(members, invitations[last.id].group_id, last.actor) = {}

(* the step is an Invite to active group g by an OWNER or ADMIN naming     *)
(* e-mail e, after an invitation of e to g was DECLINED; e has no PENDING  *)
(* invitation to g and its user no active membership in g                  *)
ReinvitesDeclined(g, e) ==
    /\ last'.op = "Invite" /\ last'.gid = g /\ last'.email = e
    /\ g \in GroupIds /\ groups[g].is_active
    /\ HoldsRole(last'.actor, g, OWNER) \/ HoldsRole(last'.actor, g, ADMIN)
    /\ \E i \in InvitationIds : /\ invitations[i].group_id = g
                                 /\ invitations[i].invited_email = e
                                 /\ invitations[i].status = DECLINED
    /\ \A i \in InvitationIds :
          (invitations[i].group_id = g /\ invitations[i].invited_email = e)
             => invitations[i].status # PENDING
    /\ \A u \in UserIds : users[u] = e => ActiveMemberships(members, u, g) = {}

(* C22: after Invite(e, g) and the invitee's Respond(DECLINED), a second   *)
(* Invite of e to g succeeds and adds a new PENDING invitation; the        *)
(* earlier invitations, the DECLINED one included, stay as they are.       *)
C22_ReinviteAfterDecline ==
    [][\A g \in GroupIds, e \in InviteeEmails \cup UnknownEmails :
          ReinvitesDeclined(g, e)
            => /\ last'.result = OK
               /\ Len(invitations') = Len(invitations) + 1
               /\ \A i \in InvitationIds : invitations'[i] = invitations[i]
               /\ LET new == invitations'[Len(invitations')] IN
                  /\ new.status = PENDING
                  /\ new.group_id = g
                  /\ new.invited_email = e]_vars

(* the second invitation of an e-mail is PENDING next to the DECLINED first *)
C22_Witness ==
    /\ last.op = "Invite" /\ last.result = OK
    /\ last.id \in InvitationIds
    /\ invitations[last.id].status = PENDING
    /\ \E i \in InvitationIds :
          /\ i < last.id
          /\ invitations[i].group_id = last.gid
          /\ invitations[i].invited_email = last.email
          /\ invitations[i].status = DECLINED

(* C23: the invitation a successful Invite stores has a token exactly when *)
(* its invited_user_id is empty, which is exactly when no account has the  *)
(* target e-mail; otherwise it stores the id of the account with that      *)
(* e-mail and no token; its token differs from every stored token, and the *)
(* stored rows keep their token and user id.                               *)
C23_TokenIffNoUser ==
    [][/\ (last'.op = "Invite" /\ last'.result = OK) =>
             LET new == invitations'[Len(invitations')] IN
             /\ new.invitation_token # NoText <=> new.invited_user_id = NoUser
             /\ new.invited_user_id = NoUser
                   <=> ~\E u \in UserIds : users[u] = new.invited_email
             /\ new.invited_user_id # NoUser
                   => /\ new.invited_user_id \in UserIds
                      /\ users[new.invited_user_id] = new.invited_email
             /\ \A i \in InvitationIds :
                   new.invitation_token # NoText
                      => invitations[i].invitation_token # new.invitation_token
       /\ \A i \in InvitationIds :
             /\ invitations'[i].invitation_token = invitations[i].invitation_token
             /\ invitations'[i].invited_user_id = invitations[i].invited_user_id]_vars

(* a second person without an account is invited by e-mail and gets a     *)
(* token that differs from the token of the first                          *)
C23_Witness ==
    /\ last.op = "Invite" /\ last.result = OK
    /\ last.id \in InvitationIds
    /\ invitations[last.id].invited_user_id = NoUser
    /\ invitations[last.id].invitation_token # NoText
    /\ \E i \in InvitationIds :
          /\ i # last.id
          /\ invitations[i].invitation_token # NoText
          /\ invitations[i].invitation_token # invitations[last.id].invitation_token

(* the step is a Respond by the invited principal on PENDING invitation i *)
RespondsPending(i) ==
    /\ last'.op = "Respond" /\ last'.id = i
    /\ invitations[i].status = PENDING
    /\ InvitedPrincipal(i, last'.actor)

(* C28: an invitation a successful Invite stores is PENDING and expires 7  *)
(* days after its creation; a Respond by the invited principal is treated  *)
(* as expired exactly when the current time is strictly later than         *)
(* expires_at, so at any time up to and including expires_at the response  *)
(* is not refused as expired and does not store EXPIRED.                   *)
C28_ExpiryIsStrict ==
    [][/\ (last'.op = "Invite" /\ last'.result = OK) =>
             LET new == invitations'[Len(invitations')] IN
             /\ new.status = PENDING
             /\ new.expires_at = now + 7
       /\ \A i \in InvitationIds :
             RespondsPending(i) =>
               /\ last'.result = Expired <=> now > invitations[i].expires_at
               /\ invitations'[i].status = EXPIRED
                     <=> now > invitations[i].expires_at]_vars

(* bob accepted exactly at the expiry instant and is a member *)
C28_Witness ==
    /\ last.op = "Respond" /\ last.result = OK /\ last.status = ACCEPTED
    /\ invitations[last.id].expires_at = now
    /\ invitations[last.id].status = ACCEPTED
    /\ ActiveMemberships(members, last.actor, invitations[last.id].group_id) # {}

(* a guard or check call leaves every table as it was *)
TablesUnchanged ==
    UNCHANGED <<users, projects, incidents, groups, members, invitations>>

(* C24: the project guard has exactly three outcomes: it passes when the   *)
(* project exists and the caller owns it, fails with PermissionDenied when *)
(* the project exists and someone else owns it, and fails with NotFound    *)
(* when no project has the id.  create_incident, which runs the guard      *)
(* first, reports the same two failures.                                   *)
C24_ProjectGuardOutcomes ==
    [][/\ last'.op = "RequireProjectAccess" =>
             LET p == last'.id
                 exists == p \in DOMAIN projects
             IN
             /\ last'.result \in {OK, PermissionDenied, NotFound}
             /\ last'.result = OK
                   <=> exists /\ projects[p].owner_id = last'.actor
             /\ last'.result = PermissionDenied
                   <=> exists /\ projects[p].owner_id # last'.actor
             /\ last'.result = NotFound <=> ~exists
             /\ TablesUnchanged
       /\ last'.op = "CreateIncident" =>
             LET p == last'.id IN
             /\ p \notin DOMAIN projects => last'.result = NotFound
             /\ p \in DOMAIN projects /\ projects[p].owner_id # last'.actor
                   => last'.result = PermissionDenied
             /\ last'.result # OK => incidents' = incidents]_vars

(* bob is refused with PermissionDenied, for reading, on a project that    *)
(* exists, is public and belongs to alice                                  *)
C24_Witness ==
    /\ last.op = "RequireProjectAccess" /\ last.result = PermissionDenied
    /\ last.action = "read"
    /\ last.id \in DOMAIN projects
    /\ projects[last.id].owner_id # last.actor
    /\ projects[last.id].is_public

(* C25: the project check answers true exactly when a project with the id  *)
(* exists and its owner_id is the user id asked about; the answer is the   *)
(* same for "read" and "write", and the call changes no table.             *)
C25_ProjectCheckIsOwnership ==
    [][last'.op = "CheckProjectAccess" =>
          LET p == last'.id
              u == last'.actor
          IN
          /\ last'.result = Allowed
                <=> p \in DOMAIN projects /\ projects[p].owner_id = u
          /\ last'.result \in {Allowed, Denied}
          /\ \A a \in AccessActions :
                check_project_access(u, p, a, Session)
                   <=> last'.result = Allowed
          /\ TablesUnchanged]_vars

(* the owner of a public project is allowed to write it *)
C25_Witness ==
    /\ last.op = "CheckProjectAccess" /\ last.result = Allowed
    /\ last.action = "write"
    /\ projects[last.id].owner_id = last.actor
    /\ projects[last.id].is_public
    /\ Len(users) > 1

(* C26: the incident check answers true exactly when the incident exists, *)
(* its project exists and that project's owner_id is the user id asked     *)
(* about, which is the answer of the project check for the incident's      *)
(* project; the incident guard fails with NotFound exactly when no         *)
(* incident has the id, and with PermissionDenied when the incident exists *)
(* and the check is false.                                                 *)
C26_IncidentCheckFollowsProject ==
    [][/\ last'.op = "CheckIncidentAccess" =>
             LET i == last'.id
                 u == last'.actor
             IN
             /\ last'.result = Allowed
                   <=> /\ i \in DOMAIN incidents
                       /\ incidents[i].project_id \in DOMAIN projects
                       /\ projects[incidents[i].project_id].owner_id = u
             /\ i \in DOMAIN incidents =>
                   (last'.result = Allowed
                      <=> check_project_access(u, incidents[i].project_id,
                                               last'.action, Session))
             /\ last'.result \in {Allowed, Denied}
             /\ TablesUnchanged
       /\ last'.op = "RequireIncidentAccess" =>
             LET i == last'.id
                 allowed == check_incident_access(last'.actor, i, last'.action,
                                                  Session)
             IN
             /\ last'.result = NotFound <=> i \notin DOMAIN incidents
             /\ i \in DOMAIN incidents /\ ~allowed
                   => last'.result = PermissionDenied
             /\ last'.result = OK
                   <=> /\ i \in DOMAIN incidents
                       /\ incidents[i].project_id \in DOMAIN projects
                       /\ projects[incidents[i].project_id].owner_id = last'.actor
             /\ TablesUnchanged]_vars

(* bob is refused with PermissionDenied on an incident of alice's project *)
C26_Witness ==
    /\ last.op = "RequireIncidentAccess" /\ last.result = PermissionDenied
    /\ last.id \in DOMAIN incidents
    /\ projects[incidents[last.id].project_id].owner_id # last.actor

(* the databases that agree with db on users, incidents and on every      *)
(* project column but group_id, and differ in the group tables: the groups *)
(* and invitations kept or emptied, the memberships kept, emptied or       *)
(* replaced by one active row of any user, group and role, and every       *)
(* project attached to no group or to any group                            *)
GroupStateVariants(db) ==
    LET group_ids == 1..MaxGroups
        member_rows == [group_id : group_ids, user_id : DOMAIN db.users,
                        role : GroupRole, is_active : {TRUE}]
        attachments == [DOMAIN db.projects -> {NoGroup} \cup group_ids]
    IN
    {[db EXCEPT !.groups = gs, !.members = ms, !.invitations = is,
                !.projects = [p \in DOMAIN db.projects |->
                                 [db.projects[p] EXCEPT !.group_id = f[p]]]] :
        gs \in {db.groups, <<>>},
        ms \in {db.members, <<>>} \cup {<<m>> : m \in member_rows},
        is \in {db.invitations, <<>>},
        f \in attachments}

(* C27: access decisions do not depend on group state.  In every database  *)
(* that agrees with the current one on projects and incidents and differs  *)
(* in groups, memberships, invitations and the projects' group_id, the     *)
(* project check and the incident check answer as they do in the current   *)
(* one, for every user, resource and action; in particular a user who is   *)
(* not the owner is refused whatever role they hold in the project's group *)
C27_AccessIgnoresGroups ==
    [][LET u == last'.actor
           a == last'.action
       IN
       /\ last'.op = "CheckProjectAccess" =>
             LET p == last'.id IN
             \A v \in GroupStateVariants(Session) :
                /\ check_project_access(u, p, a, v) <=> last'.result = Allowed
                /\ (/\ p \in DOMAIN projects
                    /\ projects[p].owner_id # u
                    /\ ActiveMemberships(v.members, u,
                                         v.projects[p].group_id) # {})
                      => /\ ~check_project_access(u, p, a, v)
                         /\ last'.result = Denied
       /\ last'.op = "CheckIncidentAccess" =>
             \A v \in GroupStateVariants(Session) :
                check_incident_access(u, last'.id, a, v)
                   <=> last'.result = Allowed]_vars

(* bob, owner of a group of his own, is refused on alice's project while   *)
(* an incident of that project exists                                      *)
C27_Witness ==
    /\ last.op = "CheckProjectAccess" /\ last.result = Denied
    /\ last.action = "read"
    /\ last.id \in DOMAIN projects
    /\ projects[last.id].owner_id # last.actor
    /\ \E g \in GroupIds : /\ groups[g].owner_id = last.actor
                           /\ ActiveMemberships(members, last.actor, g) # {}
    /\ \E i \in DOMAIN incidents : incidents[i].project_id = last.id

(* an update of an existing group by an OWNER or ADMIN of it that carries  *)
(* a name                                                                  *)
RenamesGroup ==
    /\ last'.op = "UpdateGroup"
    /\ last'.gid \in GroupIds
    /\ ~InsufficientPermissions(last'.actor, last'.gid)
    /\ last'.patch.name # None

(* another active group of the owner of group g has the name *)
NameHeldByOther(g, name) ==
    \E h \in GroupIds : /\ h # g
                        /\ groups[h].is_active
                        /\ groups[h].owner_id = groups[g].owner_id
                        /\ groups[h].name = name

(* the rename is refused exactly when another active group of the same     *)
(* owner holds the name, and a refused rename leaves the group as it was   *)
RenameConflictIffNameHeld ==
    RenamesGroup =>
       /\ last'.result = Conflict
             <=> NameHeldByOther(last'.gid, Value(last'.patch.name))
       /\ last'.result = Conflict => groups' = groups
       /\ last'.result \in {Conflict, OK}

(* a rename to the name the group already has *)
RenamesToOwnName ==
    RenamesGroup /\ Value(last'.patch.name) = groups[last'.gid].name

(* C29 as stated: UpdateGroup with a name fails with Conflict, leaving     *)
(* name, description and is_active of the group unchanged, if and only if  *)
(* another active group (another id) with the owner_id of the updated      *)
(* group already has that name; renaming a group to its own current name   *)
(* succeeds.                                                               *)
C29_RenameToOwnNameSucceeds ==
    [][/\ RenameConflictIffNameHeld
       /\ RenamesToOwnName => last'.result = OK]_vars

(* C29, amended: the Conflict rule as stated; the group's own row never    *)
(* counts as a holder of the name, so a rename to its own current name     *)
(* succeeds unless another active group of the same owner has that name,   *)
(* in which case it fails with Conflict like any other rename.             *)
C29_RenameConflictExcludesSelf ==
    [][/\ RenameConflictIffNameHeld
       /\ RenamesToOwnName =>
             IF NameHeldByOther(last'.gid, groups[last'.gid].name)
             THEN last'.result = Conflict
             ELSE /\ last'.result = OK
                  /\ groups'[last'.gid].name = groups[last'.gid].name]_vars

(* alice's attempt to give her active group the name of her other active   *)
(* group was refused, and the group kept its name                          *)
C29_Witness ==
    /\ last.op = "UpdateGroup" /\ last.result = Conflict
    /\ last.gid \in GroupIds
    /\ groups[last.gid].is_active
    /\ groups[last.gid].name # Value(last.patch.name)
    /\ \E h \in GroupIds : /\ h # last.gid
                           /\ groups[h].is_active
                           /\ groups[h].owner_id = groups[last.gid].owner_id
                           /\ groups[h].name = Value(last.patch.name)

(* a member operation on group g that names a row of another group *)
NamesForeignRow ==
    /\ last'.op \in {"UpdateMemberRole", "RemoveMember"}
    /\ last'.gid \in GroupIds
    /\ last'.id \in MemberIds
    /\ members[last'.id].group_id # last'.gid

(* C30: UpdateMemberRole and RemoveMember called with group g and the id   *)
(* of a member row of another group leave that row, and every other row,   *)
(* unchanged; an actor who is OWNER or ADMIN of g gets NotFound, and any    *)
(* other actor is stopped before the look-up with PermissionDenied.  So no *)
(* role held in g changes the role or is_active of a row of another group. *)
C30_ForeignRowNotFound ==
    [][NamesForeignRow =>
          /\ members' = members
          /\ last'.result = IF InsufficientPermissions(last'.actor, last'.gid)
                            THEN PermissionDenied
                            ELSE NotFound
          /\ HoldsRole(last'.actor, last'.gid, OWNER)
                \/ HoldsRole(last'.actor, last'.gid, ADMIN)
                => last'.result = NotFound]_vars

(* the OWNER of one group tried to remove the active OWNER row of another  *)
(* group through her own group, got NotFound, and the row is as it was     *)
C30_Witness ==
    /\ last.op = "RemoveMember" /\ last.result = NotFound
    /\ last.id \in MemberIds
    /\ members[last.id].group_id # last.gid
    /\ members[last.id].is_active
    /\ members[last.id].role = OWNER
    /\ \E m \in ActiveMemberships(members, last.actor, last.gid) :
          members[m].role = OWNER

(* C31: in every reachable state the user named by a group's owner_id     *)
(* holds an active membership with role OWNER in that group, whatever      *)
(* UpdateMemberRole and RemoveMember calls the owner and the ADMINs made.  *)
C31_OwnerKeepsOwnerMembership ==
    \A g \in GroupIds : HoldsRole(groups[g].owner_id, g, OWNER)

(* the user holds an active ADMIN or OWNER membership in the group *)
Elevated(u, g) == HoldsRole(u, g, ADMIN) \/ HoldsRole(u, g, OWNER)

(* C32: a user comes to hold an active ADMIN or OWNER membership in a      *)
(* group only by creating the group, by an UpdateMemberRole of an actor    *)
(* who is OWNER of the group, or by accepting an invitation that an OWNER  *)
(* of the group issued; an ADMIN's invitation never makes anyone ADMIN or  *)
(* OWNER.                                                                  *)
C32_ElevationOnlyByOwner ==
    [][\A g \in DOMAIN groups', u \in DOMAIN users' :
          (Elevated(u, g)' /\ ~Elevated(u, g)) =>
             \/ last'.op = "CreateGroup" /\ last'.actor = u /\ last'.gid = g
             \/ last'.op = "UpdateMemberRole" /\ last'.gid = g
                                              /\ HoldsRole(last'.actor, g, OWNER)
             \/ /\ last'.op = "Respond" /\ last'.actor = u
                /\ last'.id \in InvitationIds
                /\ invitations[last'.id].group_id = g
                /\ HoldsRole(invitations[last'.id].invited_by_id, g, OWNER)]_vars

(* C33: every Respond that returns successfully leaves the invitation     *)
(* ACCEPTED or DECLINED, never PENDING and never EXPIRED; an invitation    *)
(* becomes EXPIRED only in a Respond made after its expires_at, which      *)
(* reports Expired.                                                        *)
C33_SuccessfulRespondDecides ==
    [][/\ (last'.op = "Respond" /\ last'.result = OK)
             => invitations'[last'.id].status \in {ACCEPTED, DECLINED}
       /\ \A i \in InvitationIds :
             (invitations'[i].status = EXPIRED /\ invitations[i].status # EXPIRED)
                => /\ last'.op = "Respond" /\ last'.id = i
                   /\ last'.result = Expired
                   /\ now > invitations[i].expires_at]_vars

(* the operations of the group service *)
GroupOps ==
    {"CreateGroup", "UpdateGroup", "DeleteGroup", "Invite", "Respond",
     "UpdateMemberRole", "RemoveMember"}

(* C34: a call of a group operation that fails leaves every group,        *)
(* membership and invitation exactly as before the call, so no field of a  *)
(* patch of several fields is applied; the one exception is Respond        *)
(* failing with Expired, which changes the status of that invitation to    *)
(* EXPIRED and nothing else.                                               *)
C34_FailuresChangeNothing ==
    [][(last'.op \in GroupOps /\ last'.result # OK) =>
          IF last'.result = Expired
          THEN /\ last'.op = "Respond"
               /\ last'.id \in InvitationIds
               /\ invitations' =
                     [invitations EXCEPT ![last'.id].status = EXPIRED]
               /\ groups' = groups /\ members' = members
          ELSE /\ groups' = groups
               /\ members' = members
               /\ invitations' = invitations]_vars

(* an ADMIN's patch of the owner's row, role ADMIN and is_active false at  *)
(* once, was refused with PermissionDenied after an invitation had failed  *)
(* with Expired; the owner's row is still an active OWNER row              *)
C34_Witness ==
    /\ last.op = "UpdateMemberRole" /\ last.result = PermissionDenied
    /\ last.patch = [role |-> {ADMIN}, is_active |-> {FALSE}]
    /\ HoldsRole(last.actor, last.gid, ADMIN)
    /\ last.id \in MemberIds
    /\ members[last.id].group_id = last.gid
    /\ members[last.id].role = OWNER /\ members[last.id].is_active
    /\ \E i \in InvitationIds : /\ invitations[i].status = EXPIRED
                                /\ invitations[i].responded_at = NoTime

(* C35: no membership is created in a group while the group is inactive;  *)
(* accepting a PENDING invitation of a group that was soft-deleted after   *)
(* the invitation was issued adds no member to the deleted group.          *)
C35_NoMemberOfInactiveGroup ==
    [][Len(members') > Len(members) =>
          groups'[members'[Len(members')].group_id].is_active]_vars

(* the PENDING invitations of group g for the target of the call: the     *)
(* same invited user id, or the same invited e-mail address                *)
PendingForTarget(g, uid, email) ==
    {i \in InvitationIds :
        /\ invitations[i].group_id = g
        /\ invitations[i].status = PENDING
        /\ \/ uid # NoUser /\ invitations[i].invited_user_id = uid
           \/ email # NoText /\ invitations[i].invited_email = email}

(* C36: a PENDING invitation past its expires_at does not block a new one: *)
(* when every PENDING invitation of the group for the target is past its   *)
(* expiry, an Invite of that target by an OWNER or ADMIN of the active     *)
(* group succeeds, whether or not a Respond was attempted on the old one   *)
(* (a repeated token, refused by the store, aside).                        *)
C36_ExpiredPendingDoesNotBlock ==
    [][(/\ last'.op = "Invite"
        /\ last'.gid \in GroupIds
        /\ groups[last'.gid].is_active
        /\ ~InsufficientPermissions(last'.actor, last'.gid)
        /\ last'.uid # NoUser => ActiveMemberships(members, last'.uid, last'.gid) = {}
        /\ PendingForTarget(last'.gid, last'.uid, last'.email) # {}
        /\ \A i \in PendingForTarget(last'.gid, last'.uid, last'.email) :
              invitations[i].expires_at < now)
          => last'.result \in {OK, IntegrityError}]_vars

(* the calls of the operation that returned successfully and are still    *)
(* in their sessions                                                       *)
Succeeded(op) ==
    {s \in Sessions : /\ requests[s].pc = "done"
                      /\ requests[s].call.op = op
                      /\ requests[s].call.result = OK}

(* C37: of two CreateGroup calls of one owner with one name whose          *)
(* uniqueness checks and inserts interleave, at most one succeeds, and no  *)
(* state has two active groups with the same owner and name.               *)
C37_ConcurrentCreateGroup ==
    /\ \A s, t \in Succeeded("CreateGroup") :
          (/\ requests[s].call.actor = requests[t].call.actor
           /\ requests[s].call.name = requests[t].call.name
           /\ groups[requests[s].call.gid].is_active
           /\ groups[requests[t].call.gid].is_active) => s = t
    /\ \A g, h \in GroupIds :
          (/\ groups[g].is_active /\ groups[h].is_active
           /\ groups[g].owner_id = groups[h].owner_id
           /\ groups[g].name = groups[h].name) => g = h

(* C38: of two Invite calls for one group and one target whose checks and *)
(* inserts interleave, by one actor or by two, at most one creates an      *)
(* invitation: no group has two PENDING invitations for the same invited   *)
(* e-mail address or the same invited user id.                             *)
C38_ConcurrentInvite ==
    \A i, j \in InvitationIds :
        (/\ invitations[i].status = PENDING /\ invitations[j].status = PENDING
         /\ invitations[i].group_id = invitations[j].group_id
         /\ \/ /\ invitations[i].invited_email # NoText
               /\ invitations[i].invited_email = invitations[j].invited_email
            \/ /\ invitations[i].invited_user_id # NoUser
               /\ invitations[i].invited_user_id = invitations[j].invited_user_id)
           => i = j

(* the session commits the writes of a call that passed its checks *)
Commits(s, ops) ==
    /\ requests[s].pc = "write"
    /\ requests[s].call.op \in ops
    /\ requests'[s].pc = "done"
    /\ requests'[s].call.result = OK

(* C40: no write is committed for an actor whose authority was revoked     *)
(* before the commit: when the actor of an Invite or RemoveMember was      *)
(* removed from the group, or demoted, between the call's permission check *)
(* and its write, the call commits nothing.  Hence every commit is made    *)
(* for an actor who is OWNER or ADMIN of the group at the commit.          *)
C40_NoWriteAfterRevocation ==
    [][\A s \in Sessions :
          Commits(s, {"Invite", "RemoveMember"})
             => ~InsufficientPermissions(requests[s].call.actor,
                                         requests[s].call.gid)]_vars

(* C39: of two Respond(ACCEPTED) calls of one user for one group whose     *)
(* membership checks and inserts interleave, on the same invitation or on  *)
(* two, at most one member row of the (group, user) pair is committed; a   *)
(* call whose member row the store rejected commits nothing, so its        *)
(* invitation is not made ACCEPTED by it, and a call that commits leaves   *)
(* its invitation ACCEPTED and the user with exactly one row.              *)
C39_ConcurrentAccept ==
    [][/\ \A a, b \in DOMAIN members' :
             (/\ members'[a].group_id = members'[b].group_id
              /\ members'[a].user_id = members'[b].user_id) => a = b
       /\ \A s \in Sessions :
             (/\ requests[s].pc = "write" /\ requests[s].call.op = "Respond"
              /\ requests'[s].pc = "done") =>
                LET call == requests'[s].call
                    g == invitations[call.id].group_id
                IN
                IF call.result = IntegrityError
                THEN /\ invitations' = invitations
                     /\ members' = members
                     /\ requests[s].held.existing_membership = {}
                     /\ \E m \in MemberIds : /\ members[m].group_id = g
                                              /\ members[m].user_id = call.actor
                ELSE /\ call.result = OK
                     /\ invitations'[call.id].status = ACCEPTED
                     /\ Cardinality({m \in DOMAIN members' :
                                        /\ members'[m].group_id = g
                                        /\ members'[m].user_id = call.actor}) = 1]_vars

(* bob accepted two invitations to the group at once: one call committed   *)
(* and its invitation is ACCEPTED, the store rejected the member row of    *)
(* the other, whose invitation is still PENDING; bob has one member row    *)
C39_Witness ==
    \E s, t \in Sessions :
        /\ requests[s].pc = "done" /\ requests[t].pc = "done"
        /\ requests[s].call.op = "Respond" /\ requests[t].call.op = "Respond"
        /\ requests[s].call.actor = requests[t].call.actor
        /\ requests[s].call.result = OK
        /\ requests[t].call.result = IntegrityError
        /\ requests[s].call.id # requests[t].call.id
        /\ invitations[requests[s].call.id].status = ACCEPTED
        /\ invitations[requests[t].call.id].status = PENDING
        /\ invitations[requests[s].call.id].group_id
              = invitations[requests[t].call.id].group_id
        /\ Cardinality({m \in MemberIds :
                           members[m].user_id = requests[s].call.actor}) = 1

====
